---- MODULE Spec2Model ----
(***************************************************************************)
(* Model of the batch executor of reve-go (image.Service.BatchCreate and   *)
(* its copies BatchEdit / BatchRemix, src/image/edit.go 346-513).          *)
(*                                                                         *)
(* One batch call is modelled: the calling goroutine ("main": argument     *)
(* defaulting, the dispatch loop, wg.Wait, return) and one goroutine per   *)
(* dispatched item (select on sem / ctx.Done, the work function, the       *)
(* stop flag, the deferred release and wg.Done).  The context is           *)
(* cancelled by the environment at any moment.                             *)
(***************************************************************************)
EXTENDS Integers, Sequences, FiniteSets, TLC

\* ---------------------------------------------------------------- bounds
MaxItems == 3          \* longest params slice explored
MaxConcurrency == 2    \* largest positive BatchConfig.Concurrency explored

\* ------------------------------------------------------ program constants
DefaultConcurrency == 5

Nil == "nil"
Canceled == "context.Canceled"
ErrWork == "work error"
Unlocked == "unlocked"

\* Prompts of the requests: the work function fails on the empty prompt.
Prompts == {"ok", ""}

\* The Concurrency values a caller passes: invalid (-1), zero value (0),
\* and the positive ones.
ConcurrencyInputs == {-1, 0} \cup (1..MaxConcurrency)

\* A *BatchConfig argument: isNil marks the nil pointer, whose fields are
\* never read.
NilConfig == [isNil |-> TRUE, Concurrency |-> 0, StopOnError |-> FALSE]

BatchConfigs == [isNil : {FALSE}, Concurrency : ConcurrencyInputs, StopOnError : BOOLEAN]

DefaultBatchConfig ==
    [isNil |-> FALSE, Concurrency |-> DefaultConcurrency, StopOnError |-> FALSE]

\* The zero value of BatchResult, as make([]BatchResult, n) leaves it.
ZeroResult == [Index |-> 0, Result |-> Nil, Error |-> Nil]

BatchResult(idx, result, err) == [Index |-> idx, Result |-> result, Error |-> err]

\* s.Create / s.Edit / s.Remix as the executor sees it: (result, error),
\* exactly one of them set, a function of the request alone.
WorkResult(req) == IF req = "" THEN Nil ELSE "image:" \o req

WorkError(req) == IF req = "" THEN ErrWork ELSE Nil

\* no second call is running
NoOther == [mainPC |-> "none"]

\* no call of BatchEdit, or of BatchRemix, is in progress
NoCall == [mainPC |-> "none"]

\* none of the helpers of lines 515-557 has been called
NoHelperCalled ==
    [called |-> {}, SuccessCount |-> 0, ErrorCount |-> 0,
     Successful |-> << >>, Errors |-> << >>]

\* no Estimate function is being called
NoEstimate == [called |-> "none"]

VARIABLES
    params,         \* the requests, a function on 0..len-1
    configArg,      \* the config argument (NilConfig or a BatchConfig)
    config,         \* the local config after defaulting
    ctxDone,        \* ctx.Done() is closed / ctx.Err() != nil
    ctxDoneAtCall,  \* history: ctx was already cancelled at the call
    mainPC,         \* position of the calling goroutine
    i,              \* dispatch loop index
    results,        \* the results slice
    wg,             \* sync.WaitGroup counter
    semCap,         \* cap(sem)
    semLen,         \* len(sem): occupied slots
    stopFlag,
    stopMu,         \* stopMu: Unlocked, or locked by "main" or by a "task"
                    \* (the task at setStop)
    pc,             \* position of the goroutine of each item
    branch,         \* history: the select case each goroutine took
    invoked,        \* history: number of work-function calls per item
    writes,         \* history: number of writes of results[idx] per item
    acquires,       \* history: number of slots obtained per item
    releases,       \* history: number of slots given back per item
    runningAtCancel,\* history: the work functions that were running when ctx
                    \* was cancelled and have not returned yet
    other,          \* a second batch call running on the same Service
    agg,            \* what the helpers SuccessCount, ErrorCount, Successful
                    \* and Errors returned for results
    est,            \* a call of one of the Estimate functions
    edit,           \* a call of BatchEdit
    remix           \* a call of BatchRemix

vars == <<params, configArg, config, ctxDone, ctxDoneAtCall, mainPC, i,
          results, wg, semCap, semLen, stopFlag, stopMu, pc, branch, invoked,
          writes, acquires, releases, runningAtCancel, other, agg, est, edit,
          remix>>

N == Cardinality(DOMAIN params)

Items == DOMAIN params

\* ctx.Err()
CtxErr == IF ctxDone THEN Canceled ELSE Nil

ParamsOfLen(n) == [0..(n-1) -> Prompts]

Init ==
    /\ params \in UNION {ParamsOfLen(n) : n \in 0..MaxItems}
    /\ configArg \in {NilConfig} \cup BatchConfigs
    /\ config = configArg
    /\ ctxDone \in BOOLEAN
    /\ ctxDoneAtCall = ctxDone
    /\ mainPC = "entry"
    /\ i = 0
    /\ results = << >>
    /\ wg = 0
    /\ semCap = 0
    /\ semLen = 0
    /\ stopFlag = FALSE
    /\ stopMu = Unlocked
    /\ pc = [t \in DOMAIN params |-> "idle"]
    /\ branch = [t \in DOMAIN params |-> "none"]
    /\ invoked = [t \in DOMAIN params |-> 0]
    /\ writes = [t \in DOMAIN params |-> 0]
    /\ acquires = [t \in DOMAIN params |-> 0]
    /\ releases = [t \in DOMAIN params |-> 0]
    /\ runningAtCancel = {}
    /\ other = NoOther
    /\ edit = NoCall
    /\ remix = NoCall
    /\ agg = NoHelperCalled
    /\ est = NoEstimate

\* Defaulted that replaces a nil config by the zero BatchConfig
DefaultedToZeroValue(c) ==
    IF c.isNil THEN [isNil |-> FALSE, Concurrency |-> 0, StopOnError |-> FALSE] ELSE c

\* config after lines 347-349
Defaulted(c) == IF c.isNil THEN DefaultBatchConfig ELSE c

\* make(chan struct{}, n) panics for n < 0
MakeChanPanics(n) == n < 0

\* lines 347-355 when make(chan) succeeds
Setup ==
    /\ mainPC = "entry"
    /\ ~MakeChanPanics(Defaulted(configArg).Concurrency)
    /\ config' = Defaulted(configArg)
    /\ results' = [t \in Items |-> ZeroResult]
    /\ semCap' = Defaulted(configArg).Concurrency
    /\ mainPC' = IF N = 0 THEN "wait" ELSE "checkCtx"
    /\ UNCHANGED <<params, configArg, ctxDone, ctxDoneAtCall, i, wg, semLen,
                   stopFlag, stopMu, pc, branch, invoked, writes, acquires,
                   releases, runningAtCancel, other, agg, est, edit, remix>>

\* lines 347-353 when make(chan struct{}, config.Concurrency) panics
SetupPanic ==
    /\ mainPC = "entry"
    /\ MakeChanPanics(Defaulted(configArg).Concurrency)
    /\ config' = Defaulted(configArg)
    /\ results' = [t \in Items |-> ZeroResult]
    /\ mainPC' = "panic"
    /\ UNCHANGED <<params, configArg, ctxDone, ctxDoneAtCall, i, wg, semCap,
                   semLen, stopFlag, stopMu, pc, branch, invoked, writes,
                   acquires, releases, runningAtCancel, other, agg, est, edit,
                   remix>>

\* the loop's next position after item i
NextPC == IF i + 1 = N THEN "wait" ELSE "checkCtx"

\* MainCheckCtx that skips a cancelled item without recording an outcome
MainCheckCtxSkipsSilently ==
    /\ mainPC = "checkCtx"
    /\ IF ctxDone
       THEN /\ pc' = [pc EXCEPT ![i] = "skipCtx"]
            /\ i' = i + 1
            /\ mainPC' = NextPC
       ELSE /\ mainPC' = "lockStop"
            /\ UNCHANGED <<pc, i>>
    /\ UNCHANGED <<params, configArg, config, ctxDone, ctxDoneAtCall, results,
                   wg, semCap, semLen, stopFlag, stopMu, branch, invoked,
                   writes, acquires, releases, runningAtCancel, other, agg,
                   est, edit, remix>>

\* MainCheckCtx without the ctx.Err() test of line 358
MainCheckCtxNoCheck ==
    /\ mainPC = "checkCtx"
    /\ mainPC' = "lockStop"
    /\ UNCHANGED <<params, configArg, config, ctxDone, ctxDoneAtCall, i,
                   results, wg, semCap, semLen, stopFlag, stopMu, pc, branch,
                   invoked, writes, acquires, releases, runningAtCancel, other,
                   agg, est, edit, remix>>

\* lines 358-361
MainCheckCtx ==
    /\ mainPC = "checkCtx"
    /\ IF ctxDone
       THEN /\ results' = [results EXCEPT ![i] = BatchResult(i, Nil, CtxErr)]
            /\ writes' = [writes EXCEPT ![i] = @ + 1]
            /\ pc' = [pc EXCEPT ![i] = "skipCtx"]
            /\ i' = i + 1
            /\ mainPC' = NextPC
       ELSE /\ mainPC' = "lockStop"
            /\ UNCHANGED <<results, writes, pc, i>>
    /\ UNCHANGED <<params, configArg, config, ctxDone, ctxDoneAtCall, wg,
                   semCap, semLen, stopFlag, stopMu, branch, invoked, acquires,
                   releases, runningAtCancel, other, agg, est, edit, remix>>

\* line 363
MainLock ==
    /\ mainPC = "lockStop"
    /\ stopMu = Unlocked
    /\ stopMu' = "main"
    /\ mainPC' = "checkStop"
    /\ UNCHANGED <<params, configArg, config, ctxDone, ctxDoneAtCall, i,
                   results, wg, semCap, semLen, stopFlag, pc, branch, invoked,
                   writes, acquires, releases, runningAtCancel, other, agg,
                   est, edit, remix>>

\* MainCheckStop that forgets the flag once it has skipped an item
MainCheckStopClearsFlag ==
    /\ mainPC = "checkStop"
    /\ stopMu' = Unlocked
    /\ IF stopFlag
       THEN /\ results' = [results EXCEPT ![i] = BatchResult(i, Nil, Canceled)]
            /\ writes' = [writes EXCEPT ![i] = @ + 1]
            /\ pc' = [pc EXCEPT ![i] = "skipStop"]
            /\ i' = i + 1
            /\ mainPC' = NextPC
            /\ stopFlag' = FALSE
       ELSE /\ mainPC' = "spawn"
            /\ UNCHANGED <<results, writes, pc, i, stopFlag>>
    /\ UNCHANGED <<params, configArg, config, ctxDone, ctxDoneAtCall, wg,
                   semCap, semLen, branch, invoked, acquires, releases,
                   runningAtCancel, other, agg, est, edit, remix>>

\* MainCheckStop that records an error of its own for a stop-flag skip
MainCheckStopOwnError ==
    /\ mainPC = "checkStop"
    /\ stopMu' = Unlocked
    /\ IF stopFlag
       THEN /\ results' = [results EXCEPT ![i] = BatchResult(i, Nil, "batch stopped")]
            /\ writes' = [writes EXCEPT ![i] = @ + 1]
            /\ pc' = [pc EXCEPT ![i] = "skipStop"]
            /\ i' = i + 1
            /\ mainPC' = NextPC
       ELSE /\ mainPC' = "spawn"
            /\ UNCHANGED <<results, writes, pc, i>>
    /\ UNCHANGED <<params, configArg, config, ctxDone, ctxDoneAtCall, wg,
                   semCap, semLen, stopFlag, branch, invoked, acquires,
                   releases, runningAtCancel, other, agg, est, edit, remix>>

\* MainCheckStop without the stopFlag test of line 364
MainCheckStopIgnoresFlag ==
    /\ mainPC = "checkStop"
    /\ stopMu' = Unlocked
    /\ mainPC' = "spawn"
    /\ UNCHANGED <<params, configArg, config, ctxDone, ctxDoneAtCall, i,
                   results, wg, semCap, semLen, stopFlag, pc, branch, invoked,
                   writes, acquires, releases, runningAtCancel, other, agg,
                   est, edit, remix>>

\* lines 364-369: the flag is read under the lock; the item is skipped when
\* it is set
MainCheckStop ==
    /\ mainPC = "checkStop"
    /\ stopMu' = Unlocked
    /\ IF stopFlag
       THEN /\ results' = [results EXCEPT ![i] = BatchResult(i, Nil, Canceled)]
            /\ writes' = [writes EXCEPT ![i] = @ + 1]
            /\ pc' = [pc EXCEPT ![i] = "skipStop"]
            /\ i' = i + 1
            /\ mainPC' = NextPC
       ELSE /\ mainPC' = "spawn"
            /\ UNCHANGED <<results, writes, pc, i>>
    /\ UNCHANGED <<params, configArg, config, ctxDone, ctxDoneAtCall, wg,
                   semCap, semLen, stopFlag, branch, invoked, acquires,
                   releases, runningAtCancel, other, agg, est, edit, remix>>

\* MainSpawn of a loop that sends on sem itself before it starts the
\* goroutine
MainSpawnAcquiresFirst ==
    /\ mainPC = "spawn"
    /\ semLen < semCap
    /\ semLen' = semLen + 1
    /\ acquires' = [acquires EXCEPT ![i] = @ + 1]
    /\ branch' = [branch EXCEPT ![i] = "sem"]
    /\ wg' = wg + 1
    /\ pc' = [pc EXCEPT ![i] = "acquired"]
    /\ i' = i + 1
    /\ mainPC' = NextPC
    /\ UNCHANGED <<params, configArg, config, ctxDone, ctxDoneAtCall, results,
                   semCap, stopFlag, stopMu, invoked, writes, releases,
                   runningAtCancel, other, agg, est, edit, remix>>

\* lines 371-372 and 391: wg.Add(1), go func(i, p)
MainSpawn ==
    /\ mainPC = "spawn"
    /\ wg' = wg + 1
    /\ pc' = [pc EXCEPT ![i] = "select"]
    /\ i' = i + 1
    /\ mainPC' = NextPC
    /\ UNCHANGED <<params, configArg, config, ctxDone, ctxDoneAtCall, results,
                   semCap, semLen, stopFlag, stopMu, branch, invoked, writes,
                   acquires, releases, runningAtCancel, other, agg, est, edit,
                   remix>>

\* MainWait without wg.Wait()
MainWaitNoJoin ==
    /\ mainPC = "wait"
    /\ mainPC' = "returned"
    /\ UNCHANGED <<params, configArg, config, ctxDone, ctxDoneAtCall, i,
                   results, wg, semCap, semLen, stopFlag, stopMu, pc, branch,
                   invoked, writes, acquires, releases, runningAtCancel, other,
                   agg, est, edit, remix>>

\* lines 394-395
MainWait ==
    /\ mainPC = "wait"
    /\ wg = 0
    /\ mainPC' = "returned"
    /\ UNCHANGED <<params, configArg, config, ctxDone, ctxDoneAtCall, i,
                   results, wg, semCap, semLen, stopFlag, stopMu, pc, branch,
                   invoked, writes, acquires, releases, runningAtCancel, other,
                   agg, est, edit, remix>>

\* CanSend for a channel that never fills
CanSendUnbounded == TRUE

\* line 376: the send on sem can proceed
CanSend == semLen < semCap

\* TaskAcquire of a goroutine that gives up when stopFlag is set
TaskAcquireChecksStop(t) ==
    /\ pc[t] = "select"
    /\ CanSend
    /\ IF stopFlag
       THEN /\ results' = [results EXCEPT ![t] = BatchResult(t, Nil, Canceled)]
            /\ writes' = [writes EXCEPT ![t] = @ + 1]
            /\ pc' = [pc EXCEPT ![t] = "wgDone"]
            /\ UNCHANGED <<semLen, branch, acquires>>
       ELSE /\ semLen' = semLen + 1
            /\ pc' = [pc EXCEPT ![t] = "acquired"]
            /\ branch' = [branch EXCEPT ![t] = "sem"]
            /\ acquires' = [acquires EXCEPT ![t] = @ + 1]
            /\ UNCHANGED <<results, writes>>
    /\ UNCHANGED <<params, configArg, config, ctxDone, ctxDoneAtCall, mainPC,
                   i, wg, semCap, stopFlag, stopMu, invoked, releases,
                   runningAtCancel, other, agg, est, edit, remix>>

\* lines 375-377: the select takes the send case
TaskAcquire(t) ==
    /\ pc[t] = "select"
    /\ CanSend
    /\ semLen' = semLen + 1
    /\ pc' = [pc EXCEPT ![t] = "acquired"]
    /\ branch' = [branch EXCEPT ![t] = "sem"]
    /\ acquires' = [acquires EXCEPT ![t] = @ + 1]
    /\ UNCHANGED <<params, configArg, config, ctxDone, ctxDoneAtCall, mainPC,
                   i, results, wg, semCap, stopFlag, stopMu, invoked, writes,
                   releases, runningAtCancel, other, agg, est, edit, remix>>

\* TaskCancelled that returns without recording an outcome
TaskCancelledRecordsNothing(t) ==
    /\ pc[t] = "select"
    /\ ctxDone
    /\ pc' = [pc EXCEPT ![t] = "wgDone"]
    /\ branch' = [branch EXCEPT ![t] = "done"]
    /\ UNCHANGED <<params, configArg, config, ctxDone, ctxDoneAtCall, mainPC,
                   i, results, wg, semCap, semLen, stopFlag, stopMu, invoked,
                   writes, acquires, releases, runningAtCancel, other, agg,
                   est, edit, remix>>

\* TaskCancelled of a goroutine whose receive from sem was deferred
\* before the select, so that it runs on this path too
TaskCancelledReleases(t) ==
    /\ pc[t] = "select"
    /\ ctxDone
    /\ results' = [results EXCEPT ![t] = BatchResult(t, Nil, CtxErr)]
    /\ writes' = [writes EXCEPT ![t] = @ + 1]
    /\ semLen' = semLen - 1
    /\ pc' = [pc EXCEPT ![t] = "wgDone"]
    /\ branch' = [branch EXCEPT ![t] = "done"]
    /\ UNCHANGED <<params, configArg, config, ctxDone, ctxDoneAtCall, mainPC,
                   i, wg, semCap, stopFlag, stopMu, invoked, acquires,
                   releases, runningAtCancel, other, agg, est, edit, remix>>

\* TaskCancelled without the return of line 380
TaskCancelledFallsThrough(t) ==
    /\ pc[t] = "select"
    /\ ctxDone
    /\ results' = [results EXCEPT ![t] = BatchResult(t, Nil, CtxErr)]
    /\ writes' = [writes EXCEPT ![t] = @ + 1]
    /\ pc' = [pc EXCEPT ![t] = "acquired"]
    /\ branch' = [branch EXCEPT ![t] = "done"]
    /\ UNCHANGED <<params, configArg, config, ctxDone, ctxDoneAtCall, mainPC,
                   i, wg, semCap, semLen, stopFlag, stopMu, invoked, acquires,
                   releases, runningAtCancel, other, agg, est, edit, remix>>

\* lines 378-380: the select takes the ctx.Done case
TaskCancelled(t) ==
    /\ pc[t] = "select"
    /\ ctxDone
    /\ results' = [results EXCEPT ![t] = BatchResult(t, Nil, CtxErr)]
    /\ writes' = [writes EXCEPT ![t] = @ + 1]
    /\ pc' = [pc EXCEPT ![t] = "wgDone"]
    /\ branch' = [branch EXCEPT ![t] = "done"]
    /\ UNCHANGED <<params, configArg, config, ctxDone, ctxDoneAtCall, mainPC,
                   i, wg, semCap, semLen, stopFlag, stopMu, invoked, acquires,
                   releases, runningAtCancel, other, agg, est, edit, remix>>

\* TaskInvoke of a goroutine that takes stopMu before it calls the work
\* function
TaskInvokeHoldsLock(t) ==
    /\ pc[t] = "acquired"
    /\ stopMu = Unlocked
    /\ stopMu' = "task"
    /\ pc' = [pc EXCEPT ![t] = "working"]
    /\ invoked' = [invoked EXCEPT ![t] = @ + 1]
    /\ UNCHANGED <<params, configArg, config, ctxDone, ctxDoneAtCall, mainPC,
                   i, results, wg, semCap, semLen, stopFlag, branch, writes,
                   acquires, releases, runningAtCancel, other, agg, est, edit,
                   remix>>

\* line 383: the call of the work function begins
TaskInvoke(t) ==
    /\ pc[t] = "acquired"
    /\ pc' = [pc EXCEPT ![t] = "working"]
    /\ invoked' = [invoked EXCEPT ![t] = @ + 1]
    /\ UNCHANGED <<params, configArg, config, ctxDone, ctxDoneAtCall, mainPC,
                   i, results, wg, semCap, semLen, stopFlag, stopMu, branch,
                   writes, acquires, releases, runningAtCancel, other, agg,
                   est, edit, remix>>

\* the loop variable as a goroutine that captured it would read it
LoopVar == IF i < N THEN i ELSE N - 1

\* TaskReturn of a goroutine that captured the loop index instead of idx
TaskReturnSharedIndex(t) ==
    /\ pc[t] = "working"
    /\ results' = [results EXCEPT
                     ![LoopVar] = BatchResult(LoopVar, WorkResult(params[t]), WorkError(params[t]))]
    /\ writes' = [writes EXCEPT ![LoopVar] = @ + 1]
    /\ pc' = [pc EXCEPT ![t] =
                IF WorkError(params[t]) # Nil /\ config.StopOnError
                THEN "lockStop" ELSE "release"]
    /\ runningAtCancel' = runningAtCancel \ {t}
    /\ UNCHANGED <<params, configArg, config, ctxDone, ctxDoneAtCall, mainPC,
                   i, wg, semCap, semLen, stopFlag, stopMu, branch, invoked,
                   acquires, releases, other, agg, est, edit, remix>>

\* TaskReturn of a goroutine that captured the loop's request instead of req
TaskReturnWrongRequest(t) ==
    /\ pc[t] = "working"
    /\ results' = [results EXCEPT
                     ![t] = BatchResult(t, WorkResult(params[LoopVar]), WorkError(params[LoopVar]))]
    /\ writes' = [writes EXCEPT ![t] = @ + 1]
    /\ pc' = [pc EXCEPT ![t] =
                IF WorkError(params[LoopVar]) # Nil /\ config.StopOnError
                THEN "lockStop" ELSE "release"]
    /\ runningAtCancel' = runningAtCancel \ {t}
    /\ UNCHANGED <<params, configArg, config, ctxDone, ctxDoneAtCall, mainPC,
                   i, wg, semCap, semLen, stopFlag, stopMu, branch, invoked,
                   acquires, releases, other, agg, est, edit, remix>>

\* TaskReturn that stores ctx.Err() in place of the work function's
\* outcome when the context is cancelled
TaskReturnPrefersCtxErr(t) ==
    /\ pc[t] = "working"
    /\ results' = [results EXCEPT
                     ![t] = IF ctxDone
                            THEN BatchResult(t, Nil, CtxErr)
                            ELSE BatchResult(t, WorkResult(params[t]), WorkError(params[t]))]
    /\ writes' = [writes EXCEPT ![t] = @ + 1]
    /\ pc' = [pc EXCEPT ![t] =
                IF WorkError(params[t]) # Nil /\ config.StopOnError
                THEN "lockStop" ELSE "release"]
    /\ runningAtCancel' = runningAtCancel \ {t}
    /\ UNCHANGED <<params, configArg, config, ctxDone, ctxDoneAtCall, mainPC,
                   i, wg, semCap, semLen, stopFlag, stopMu, branch, invoked,
                   acquires, releases, other, agg, est, edit, remix>>

\* TaskReturn of a goroutine that gives its slot back as soon as the work
\* function has returned, before it sets the flag
TaskReturnReleasesFirst(t) ==
    /\ pc[t] = "working"
    /\ results' = [results EXCEPT
                     ![t] = BatchResult(t, WorkResult(params[t]), WorkError(params[t]))]
    /\ writes' = [writes EXCEPT ![t] = @ + 1]
    /\ semLen' = semLen - 1
    /\ releases' = [releases EXCEPT ![t] = @ + 1]
    /\ pc' = [pc EXCEPT ![t] =
                IF WorkError(params[t]) # Nil /\ config.StopOnError
                THEN "lockStop" ELSE "wgDone"]
    /\ runningAtCancel' = runningAtCancel \ {t}
    /\ UNCHANGED <<params, configArg, config, ctxDone, ctxDoneAtCall, mainPC,
                   i, wg, semCap, stopFlag, stopMu, branch, invoked, acquires,
                   other, agg, est, edit, remix>>

\* TaskReturn that sets the flag whatever config.StopOnError says
TaskReturnAlwaysStops(t) ==
    /\ pc[t] = "working"
    /\ results' = [results EXCEPT
                     ![t] = BatchResult(t, WorkResult(params[t]), WorkError(params[t]))]
    /\ writes' = [writes EXCEPT ![t] = @ + 1]
    /\ pc' = [pc EXCEPT ![t] =
                IF WorkError(params[t]) # Nil THEN "lockStop" ELSE "release"]
    /\ runningAtCancel' = runningAtCancel \ {t}
    /\ UNCHANGED <<params, configArg, config, ctxDone, ctxDoneAtCall, mainPC,
                   i, wg, semCap, semLen, stopFlag, stopMu, branch, invoked,
                   acquires, releases, other, agg, est, edit, remix>>

\* lines 383-386: the work function returns, the result is stored
TaskReturn(t) ==
    /\ pc[t] = "working"
    /\ results' = [results EXCEPT
                     ![t] = BatchResult(t, WorkResult(params[t]), WorkError(params[t]))]
    /\ writes' = [writes EXCEPT ![t] = @ + 1]
    /\ pc' = [pc EXCEPT ![t] =
                IF WorkError(params[t]) # Nil /\ config.StopOnError
                THEN "lockStop" ELSE "release"]
    /\ runningAtCancel' = runningAtCancel \ {t}
    /\ UNCHANGED <<params, configArg, config, ctxDone, ctxDoneAtCall, mainPC,
                   i, wg, semCap, semLen, stopFlag, stopMu, branch, invoked,
                   acquires, releases, other, agg, est, edit, remix>>

\* line 387
TaskLock(t) ==
    /\ pc[t] = "lockStop"
    /\ stopMu = Unlocked
    /\ stopMu' = "task"
    /\ pc' = [pc EXCEPT ![t] = "setStop"]
    /\ UNCHANGED <<params, configArg, config, ctxDone, ctxDoneAtCall, mainPC,
                   i, results, wg, semCap, semLen, stopFlag, branch, invoked,
                   writes, acquires, releases, runningAtCancel, other, agg,
                   est, edit, remix>>

\* TaskSetStop of a goroutine whose release is not deferred and that
\* returns right after setting the flag
TaskSetStopNoRelease(t) ==
    /\ pc[t] = "setStop"
    /\ stopFlag' = TRUE
    /\ stopMu' = Unlocked
    /\ pc' = [pc EXCEPT ![t] = "wgDone"]
    /\ UNCHANGED <<params, configArg, config, ctxDone, ctxDoneAtCall, mainPC,
                   i, results, wg, semCap, semLen, branch, invoked, writes,
                   acquires, releases, runningAtCancel, other, agg, est, edit,
                   remix>>

\* lines 388-389
TaskSetStop(t) ==
    /\ pc[t] = "setStop"
    /\ stopFlag' = TRUE
    /\ stopMu' = Unlocked
    /\ pc' = [pc EXCEPT ![t] = "release"]
    /\ UNCHANGED <<params, configArg, config, ctxDone, ctxDoneAtCall, mainPC,
                   i, results, wg, semCap, semLen, branch, invoked, writes,
                   acquires, releases, runningAtCancel, other, agg, est, edit,
                   remix>>

\* line 377, deferred: <-sem
TaskRelease(t) ==
    /\ pc[t] = "release"
    /\ semLen' = semLen - 1
    /\ pc' = [pc EXCEPT ![t] = "wgDone"]
    /\ releases' = [releases EXCEPT ![t] = @ + 1]
    /\ UNCHANGED <<params, configArg, config, ctxDone, ctxDoneAtCall, mainPC,
                   i, results, wg, semCap, stopFlag, stopMu, branch, invoked,
                   writes, acquires, runningAtCancel, other, agg, est, edit,
                   remix>>

\* line 373, deferred: wg.Done()
TaskDone(t) ==
    /\ pc[t] = "wgDone"
    /\ wg' = wg - 1
    /\ pc' = [pc EXCEPT ![t] = "finished"]
    /\ UNCHANGED <<params, configArg, config, ctxDone, ctxDoneAtCall, mainPC,
                   i, results, semCap, semLen, stopFlag, stopMu, branch,
                   invoked, writes, acquires, releases, runningAtCancel, other,
                   agg, est, edit, remix>>

\* the caller's context is cancelled while the call is running
Cancel ==
    /\ ~ctxDone
    /\ mainPC \notin {"entry", "returned", "panic"}
    /\ ctxDone' = TRUE
    /\ runningAtCancel' = {t \in DOMAIN params : pc[t] = "working"}
    /\ UNCHANGED <<params, configArg, config, ctxDoneAtCall, mainPC, i,
                   results, wg, semCap, semLen, stopFlag, stopMu, pc, branch,
                   invoked, writes, acquires, releases, other, agg, est, edit,
                   remix>>

Next ==
    \/ Setup
    \/ SetupPanic
    \/ MainCheckCtx
    \/ MainLock
    \/ MainCheckStop
    \/ MainSpawn
    \/ MainWait
    \/ Cancel
    \/ \E t \in Items : TaskAcquire(t)
    \/ \E t \in Items : TaskCancelled(t)
    \/ \E t \in Items : TaskInvoke(t)
    \/ \E t \in Items : TaskReturn(t)
    \/ \E t \in Items : TaskLock(t)
    \/ \E t \in Items : TaskSetStop(t)
    \/ \E t \in Items : TaskRelease(t)
    \/ \E t \in Items : TaskDone(t)

Spec == Init /\ [][Next]_vars

\* the steps of the call itself: everything but the caller's cancellation
Program ==
    \/ Setup
    \/ SetupPanic
    \/ MainCheckCtx
    \/ MainLock
    \/ MainCheckStop
    \/ MainSpawn
    \/ MainWait
    \/ \E t \in Items : TaskAcquire(t)
    \/ \E t \in Items : TaskCancelled(t)
    \/ \E t \in Items : TaskInvoke(t)
    \/ \E t \in Items : TaskReturn(t)
    \/ \E t \in Items : TaskLock(t)
    \/ \E t \in Items : TaskSetStop(t)
    \/ \E t \in Items : TaskRelease(t)
    \/ \E t \in Items : TaskDone(t)

\* The Go scheduler runs every runnable goroutine and every call of the
\* work function returns; the caller is not obliged to cancel ctx.  A call
\* takes finitely many steps, so weak fairness of the program's steps as a
\* whole is weak fairness of each of them.
FairSpec == Spec /\ WF_vars(Program)

\* A call with a nil config and one request more than the default gate
\* holds, the first of which fails; ctx is never cancelled.
NilItems == DefaultConcurrency + 1

InitNil ==
    /\ params = [t \in 0..(NilItems - 1) |-> IF t = 0 THEN "" ELSE "ok"]
    /\ configArg = NilConfig
    /\ config = configArg
    /\ ctxDone = FALSE
    /\ ctxDoneAtCall = ctxDone
    /\ mainPC = "entry"
    /\ i = 0
    /\ results = << >>
    /\ wg = 0
    /\ semCap = 0
    /\ semLen = 0
    /\ stopFlag = FALSE
    /\ stopMu = Unlocked
    /\ pc = [t \in DOMAIN params |-> "idle"]
    /\ branch = [t \in DOMAIN params |-> "none"]
    /\ invoked = [t \in DOMAIN params |-> 0]
    /\ writes = [t \in DOMAIN params |-> 0]
    /\ acquires = [t \in DOMAIN params |-> 0]
    /\ releases = [t \in DOMAIN params |-> 0]
    /\ runningAtCancel = {}
    /\ other = NoOther
    /\ edit = NoCall
    /\ remix = NoCall
    /\ agg = NoHelperCalled
    /\ est = NoEstimate

\* the steps such a call can take
NextNil ==
    \/ Setup
    \/ MainCheckCtx
    \/ MainLock
    \/ MainCheckStop
    \/ MainSpawn
    \/ MainWait
    \/ \E t \in Items : TaskAcquire(t)
    \/ \E t \in Items : TaskInvoke(t)
    \/ \E t \in Items : TaskReturn(t)
    \/ \E t \in Items : TaskRelease(t)
    \/ \E t \in Items : TaskDone(t)

SpecNil == InitNil /\ [][NextNil]_vars

\* ------------------------------------------- two calls on the same Service
\* Every piece of coordination state (results, wg, sem, stopFlag, stopMu,
\* lines 351-355) is a local variable of the call.  The second call is the
\* same code running on its own locals, kept in the record other; both
\* calls were given the same ctx, which is never cancelled here.

\* the variables of the first call
callVars == <<params, configArg, config, ctxDone, ctxDoneAtCall, mainPC, i,
              results, wg, semCap, semLen, stopFlag, stopMu, pc, branch,
              invoked, writes, acquires, releases, runningAtCancel>>

PairItems == 2

\* the config both calls pass: one slot, StopOnError
PairConfig == [isNil |-> FALSE, Concurrency |-> 1, StopOnError |-> TRUE]

\* the second call before it starts
OtherCall(ps, c) ==
    [params |-> ps, configArg |-> c, config |-> c, mainPC |-> "entry",
     i |-> 0, results |-> << >>, wg |-> 0, semCap |-> 0, semLen |-> 0,
     stopFlag |-> FALSE, stopMu |-> Unlocked,
     pc |-> [t \in DOMAIN ps |-> "idle"]]

OtherItems == DOMAIN other.params

OtherN == Cardinality(DOMAIN other.params)

InitPair ==
    /\ params \in ParamsOfLen(PairItems)
    /\ configArg = PairConfig
    /\ config = configArg
    /\ ctxDone = FALSE
    /\ ctxDoneAtCall = ctxDone
    /\ mainPC = "entry"
    /\ i = 0
    /\ results = << >>
    /\ wg = 0
    /\ semCap = 0
    /\ semLen = 0
    /\ stopFlag = FALSE
    /\ stopMu = Unlocked
    /\ pc = [t \in DOMAIN params |-> "idle"]
    /\ branch = [t \in DOMAIN params |-> "none"]
    /\ invoked = [t \in DOMAIN params |-> 0]
    /\ writes = [t \in DOMAIN params |-> 0]
    /\ acquires = [t \in DOMAIN params |-> 0]
    /\ releases = [t \in DOMAIN params |-> 0]
    /\ runningAtCancel = {}
    /\ other \in {OtherCall(ps, PairConfig) : ps \in ParamsOfLen(PairItems)}
    /\ edit = NoCall
    /\ remix = NoCall
    /\ agg = NoHelperCalled
    /\ est = NoEstimate

\* lines 347-355 in the second call
OtherSetup ==
    /\ other.mainPC = "entry"
    /\ ~MakeChanPanics(Defaulted(other.configArg).Concurrency)
    /\ other' = [other EXCEPT
                   !.config = Defaulted(other.configArg),
                   !.results = [t \in OtherItems |-> ZeroResult],
                   !.semCap = Defaulted(other.configArg).Concurrency,
                   !.mainPC = IF OtherN = 0 THEN "wait" ELSE "checkCtx"]
    /\ UNCHANGED <<callVars, agg, est, edit, remix>>

\* the second call's next loop position after item other.i
OtherNextPC == IF other.i + 1 = OtherN THEN "wait" ELSE "checkCtx"

\* lines 358-361 in the second call
OtherMainCheckCtx ==
    /\ other.mainPC = "checkCtx"
    /\ other' = IF ctxDone
                THEN [other EXCEPT
                        !.results[other.i] = BatchResult(other.i, Nil, CtxErr),
                        !.pc[other.i] = "skipCtx",
                        !.i = other.i + 1,
                        !.mainPC = OtherNextPC]
                ELSE [other EXCEPT !.mainPC = "lockStop"]
    /\ UNCHANGED <<callVars, agg, est, edit, remix>>

\* line 363 in the second call
OtherMainLock ==
    /\ other.mainPC = "lockStop"
    /\ other.stopMu = Unlocked
    /\ other' = [other EXCEPT !.stopMu = "main", !.mainPC = "checkStop"]
    /\ UNCHANGED <<callVars, agg, est, edit, remix>>

\* lines 364-369 in the second call
OtherMainCheckStop ==
    /\ other.mainPC = "checkStop"
    /\ other' = IF other.stopFlag
                THEN [other EXCEPT
                        !.stopMu = Unlocked,
                        !.results[other.i] = BatchResult(other.i, Nil, Canceled),
                        !.pc[other.i] = "skipStop",
                        !.i = other.i + 1,
                        !.mainPC = OtherNextPC]
                ELSE [other EXCEPT !.stopMu = Unlocked, !.mainPC = "spawn"]
    /\ UNCHANGED <<callVars, agg, est, edit, remix>>

\* lines 371-372 and 391 in the second call
OtherMainSpawn ==
    /\ other.mainPC = "spawn"
    /\ other' = [other EXCEPT
                   !.wg = other.wg + 1,
                   !.pc[other.i] = "select",
                   !.i = other.i + 1,
                   !.mainPC = OtherNextPC]
    /\ UNCHANGED <<callVars, agg, est, edit, remix>>

\* lines 394-395 in the second call
OtherMainWait ==
    /\ other.mainPC = "wait"
    /\ other.wg = 0
    /\ other' = [other EXCEPT !.mainPC = "returned"]
    /\ UNCHANGED <<callVars, agg, est, edit, remix>>

\* line 376 in the second call: the send on its own sem can proceed
OtherCanSend == other.semLen < other.semCap

\* lines 375-377 in the second call
OtherTaskAcquire(t) ==
    /\ other.pc[t] = "select"
    /\ OtherCanSend
    /\ other' = [other EXCEPT !.semLen = other.semLen + 1, !.pc[t] = "acquired"]
    /\ UNCHANGED <<callVars, agg, est, edit, remix>>

\* line 383 in the second call: the call of the work function begins
OtherTaskInvoke(t) ==
    /\ other.pc[t] = "acquired"
    /\ other' = [other EXCEPT !.pc[t] = "working"]
    /\ UNCHANGED <<callVars, agg, est, edit, remix>>

\* lines 383-386 in the second call
OtherTaskReturn(t) ==
    /\ other.pc[t] = "working"
    /\ other' = [other EXCEPT
                   !.results[t] = BatchResult(t, WorkResult(other.params[t]),
                                              WorkError(other.params[t])),
                   !.pc[t] = IF WorkError(other.params[t]) # Nil /\ other.config.StopOnError
                             THEN "lockStop" ELSE "release"]
    /\ UNCHANGED <<callVars, agg, est, edit, remix>>

\* line 387 in the second call
OtherTaskLock(t) ==
    /\ other.pc[t] = "lockStop"
    /\ other.stopMu = Unlocked
    /\ other' = [other EXCEPT !.stopMu = "task", !.pc[t] = "setStop"]
    /\ UNCHANGED <<callVars, agg, est, edit, remix>>

\* OtherTaskSetStop for a stop flag that is a field of the Service, shared
\* by every call
OtherTaskSetStopSharedFlag(t) ==
    /\ other.pc[t] = "setStop"
    /\ other' = [other EXCEPT
                   !.stopFlag = TRUE, !.stopMu = Unlocked, !.pc[t] = "release"]
    /\ stopFlag' = TRUE
    /\ UNCHANGED <<params, configArg, config, ctxDone, ctxDoneAtCall, mainPC,
                   i, results, wg, semCap, semLen, stopMu, pc, branch, invoked,
                   writes, acquires, releases, runningAtCancel, agg, est, edit,
                   remix>>

\* lines 388-389 in the second call
OtherTaskSetStop(t) ==
    /\ other.pc[t] = "setStop"
    /\ other' = [other EXCEPT
                   !.stopFlag = TRUE, !.stopMu = Unlocked, !.pc[t] = "release"]
    /\ UNCHANGED <<callVars, agg, est, edit, remix>>

\* line 377, deferred, in the second call
OtherTaskRelease(t) ==
    /\ other.pc[t] = "release"
    /\ other' = [other EXCEPT !.semLen = other.semLen - 1, !.pc[t] = "wgDone"]
    /\ UNCHANGED <<callVars, agg, est, edit, remix>>

\* line 373, deferred, in the second call
OtherTaskDone(t) ==
    /\ other.pc[t] = "wgDone"
    /\ other' = [other EXCEPT !.wg = other.wg - 1, !.pc[t] = "finished"]
    /\ UNCHANGED <<callVars, agg, est, edit, remix>>

\* the steps of two calls whose ctx is never cancelled
NextPair ==
    \/ Setup
    \/ MainCheckCtx
    \/ MainLock
    \/ MainCheckStop
    \/ MainSpawn
    \/ MainWait
    \/ \E t \in Items : TaskAcquire(t)
    \/ \E t \in Items : TaskInvoke(t)
    \/ \E t \in Items : TaskReturn(t)
    \/ \E t \in Items : TaskLock(t)
    \/ \E t \in Items : TaskSetStop(t)
    \/ \E t \in Items : TaskRelease(t)
    \/ \E t \in Items : TaskDone(t)
    \/ OtherSetup
    \/ OtherMainCheckCtx
    \/ OtherMainLock
    \/ OtherMainCheckStop
    \/ OtherMainSpawn
    \/ OtherMainWait
    \/ \E t \in OtherItems : OtherTaskAcquire(t)
    \/ \E t \in OtherItems : OtherTaskInvoke(t)
    \/ \E t \in OtherItems : OtherTaskReturn(t)
    \/ \E t \in OtherItems : OtherTaskLock(t)
    \/ \E t \in OtherItems : OtherTaskSetStop(t)
    \/ \E t \in OtherItems : OtherTaskRelease(t)
    \/ \E t \in OtherItems : OtherTaskDone(t)

SpecPair == InitPair /\ [][NextPair]_vars

\* ------------------------------------------------ the helpers on results
\* A []BatchResult is a function on 0..len-1; a returned slice ([]*Result,
\* []error) is a sequence, the nil slice being << >>.

RECURSIVE SuccessCountUpTo(_, _)
\* lines 517-523: count after the first n elements of the range loop
SuccessCountUpTo(rs, n) ==
    IF n = 0 THEN 0
    ELSE SuccessCountUpTo(rs, n - 1) + (IF rs[n - 1].Error = Nil THEN 1 ELSE 0)

\* lines 516-524
SuccessCount(rs) == SuccessCountUpTo(rs, Cardinality(DOMAIN rs))

RECURSIVE ErrorCountUpTo(_, _)
\* lines 528-534: count after the first n elements of the range loop
ErrorCountUpTo(rs, n) ==
    IF n = 0 THEN 0
    ELSE ErrorCountUpTo(rs, n - 1) + (IF rs[n - 1].Error # Nil THEN 1 ELSE 0)

\* ErrorCount that counts the errors of the work function only
ErrorCountWorkOnly(rs) == Cardinality({k \in DOMAIN rs : rs[k].Error = ErrWork})

\* lines 527-535
ErrorCount(rs) == ErrorCountUpTo(rs, Cardinality(DOMAIN rs))

RECURSIVE SuccessfulUpTo(_, _)
\* lines 539-544: out after the first n elements of the range loop
SuccessfulUpTo(rs, n) ==
    IF n = 0 THEN << >>
    ELSE IF rs[n - 1].Error = Nil
         THEN Append(SuccessfulUpTo(rs, n - 1), rs[n - 1].Result)
         ELSE SuccessfulUpTo(rs, n - 1)

\* Successful that leaves out a nil Result
SuccessfulNonNil(rs) ==
    SelectSeq(SuccessfulUpTo(rs, Cardinality(DOMAIN rs)), LAMBDA v : v # Nil)

\* lines 538-546
Successful(rs) == SuccessfulUpTo(rs, Cardinality(DOMAIN rs))

RECURSIVE ErrorsUpTo(_, _)
\* lines 550-555: errs after the first n elements of the range loop
ErrorsUpTo(rs, n) ==
    IF n = 0 THEN << >>
    ELSE IF rs[n - 1].Error # Nil
         THEN Append(ErrorsUpTo(rs, n - 1), rs[n - 1].Error)
         ELSE ErrorsUpTo(rs, n - 1)

\* lines 549-557
Errors(rs) == ErrorsUpTo(rs, Cardinality(DOMAIN rs))

\* the values a caller can put into the Result and Error fields
ResultValues == {Nil, "image:ok"}

ErrorValues == {Nil, ErrWork, Canceled}

\* every []BatchResult of length n whose element k has Index k
ResultsOfLen(n) ==
    {[k \in 0..(n - 1) |-> BatchResult(k, f[k][1], f[k][2])] :
        f \in [0..(n - 1) -> ResultValues \X ErrorValues]}

\* a caller holds some []BatchResult and calls the helpers on it
InitHelpers ==
    /\ params = << >>
    /\ configArg = NilConfig
    /\ config = configArg
    /\ ctxDone = FALSE
    /\ ctxDoneAtCall = ctxDone
    /\ mainPC = "returned"
    /\ i = 0
    /\ results \in UNION {ResultsOfLen(n) : n \in 0..MaxItems}
    /\ wg = 0
    /\ semCap = 0
    /\ semLen = 0
    /\ stopFlag = FALSE
    /\ stopMu = Unlocked
    /\ pc = [t \in DOMAIN params |-> "idle"]
    /\ branch = [t \in DOMAIN params |-> "none"]
    /\ invoked = [t \in DOMAIN params |-> 0]
    /\ writes = [t \in DOMAIN params |-> 0]
    /\ acquires = [t \in DOMAIN params |-> 0]
    /\ releases = [t \in DOMAIN params |-> 0]
    /\ runningAtCancel = {}
    /\ other = NoOther
    /\ edit = NoCall
    /\ remix = NoCall
    /\ agg = NoHelperCalled
    /\ est = NoEstimate

\* count := SuccessCount(results)
CallSuccessCount ==
    /\ "SuccessCount" \notin agg.called
    /\ agg' = [agg EXCEPT !.called = @ \cup {"SuccessCount"},
                          !.SuccessCount = SuccessCount(results)]
    /\ UNCHANGED <<callVars, other, est, edit, remix>>

\* count := ErrorCount(results)
CallErrorCount ==
    /\ "ErrorCount" \notin agg.called
    /\ agg' = [agg EXCEPT !.called = @ \cup {"ErrorCount"},
                          !.ErrorCount = ErrorCount(results)]
    /\ UNCHANGED <<callVars, other, est, edit, remix>>

\* out := Successful(results)
CallSuccessful ==
    /\ "Successful" \notin agg.called
    /\ agg' = [agg EXCEPT !.called = @ \cup {"Successful"},
                          !.Successful = Successful(results)]
    /\ UNCHANGED <<callVars, other, est, edit, remix>>

\* errs := Errors(results)
CallErrors ==
    /\ "Errors" \notin agg.called
    /\ agg' = [agg EXCEPT !.called = @ \cup {"Errors"},
                          !.Errors = Errors(results)]
    /\ UNCHANGED <<callVars, other, est, edit, remix>>

NextHelpers ==
    \/ CallSuccessCount
    \/ CallErrorCount
    \/ CallSuccessful
    \/ CallErrors

SpecHelpers == InitHelpers /\ [][NextHelpers]_vars

\* ------------------------------------------------------- cost estimation
\* Credit costs (part_000 lines 10-16)
CostCreate == 18

CostEdit == 30

CostEditFast == 5

CostRemix == 30

CostRemixFast == 5

\* types.ProcessUpscale, types.ProcessRemoveBackground, and a Process the
\* switch has no case for
ProcessUpscale == "upscale"

ProcessRemoveBackground == "remove_background"

ProcessOther == "other"

MaxScaling == 3        \* largest scaling explored
MaxPostprocess == 2    \* longest postprocess slice explored

\* A float64 scaling is kept as a whole number of halves, scaling * 2:
\* halves and their products with the credit costs are exact in float64.
ScalingUnit == 2

\* the scalings explored: -1, -0.5, 0, 0.5, 1, 1.5, ..., MaxScaling
ScalingInputs == (-ScalingUnit)..(MaxScaling * ScalingUnit)

\* the elements of a []types.Postprocess
PostprocessInputs ==
    [Process : {ProcessUpscale}, UpscaleFactor : {2, 4}]
        \cup [Process : {ProcessRemoveBackground, ProcessOther}, UpscaleFactor : {0}]

PostprocessSlices == UNION {[1..n -> PostprocessInputs] : n \in 0..MaxPostprocess}

\* int(float64(total) * scaling) for total >= 0 and scaling > 1: the
\* product is exact and int() drops the fraction
ScaledCredits(total, scaling) == (total * scaling) \div ScalingUnit

RECURSIVE PostprocessCredits(_, _)
\* lines 74-81: what the loop has added to total after the first n
\* elements of postprocess
PostprocessCredits(postprocess, n) ==
    IF n = 0 THEN 0
    ELSE PostprocessCredits(postprocess, n - 1) +
         (CASE postprocess[n].Process = ProcessUpscale -> postprocess[n].UpscaleFactor * 2
            [] postprocess[n].Process = ProcessRemoveBackground -> 2
            [] OTHER -> 0)

\* estimate that multiplies by every scaling
estimateAlwaysScales(base, scaling, postprocess) ==
    [BaseCredits |-> base,
     TotalCredits |-> ScaledCredits(base, scaling)
                        + PostprocessCredits(postprocess, Len(postprocess))]

\* lines 67-88; EstimatedUSD, a float64 no statement here is about, is
\* left out of Cost
estimate(base, scaling, postprocess) ==
    [BaseCredits |-> base,
     TotalCredits |-> (IF scaling > ScalingUnit
                       THEN ScaledCredits(base, scaling) ELSE base)
                        + PostprocessCredits(postprocess, Len(postprocess))]

\* lines 37-39
EstimateCreate(scaling, postprocess) == estimate(CostCreate, scaling, postprocess)

\* EstimateEdit that ignores fast
EstimateEditIgnoresFast(fast, scaling, postprocess) ==
    estimate(CostEdit, scaling, postprocess)

\* lines 50-56
EstimateEdit(fast, scaling, postprocess) ==
    estimate(IF fast THEN CostEditFast ELSE CostEdit, scaling, postprocess)

\* lines 59-65
EstimateRemix(fast, scaling, postprocess) ==
    estimate(IF fast THEN CostRemixFast ELSE CostRemix, scaling, postprocess)

\* the zero Cost
ZeroCost == [BaseCredits |-> 0, TotalCredits |-> 0]

\* a caller holds the arguments and calls one of the Estimate functions
InitEstimate ==
    /\ params = << >>
    /\ configArg = NilConfig
    /\ config = configArg
    /\ ctxDone = FALSE
    /\ ctxDoneAtCall = ctxDone
    /\ mainPC = "entry"
    /\ i = 0
    /\ results = << >>
    /\ wg = 0
    /\ semCap = 0
    /\ semLen = 0
    /\ stopFlag = FALSE
    /\ stopMu = Unlocked
    /\ pc = [t \in DOMAIN params |-> "idle"]
    /\ branch = [t \in DOMAIN params |-> "none"]
    /\ invoked = [t \in DOMAIN params |-> 0]
    /\ writes = [t \in DOMAIN params |-> 0]
    /\ acquires = [t \in DOMAIN params |-> 0]
    /\ releases = [t \in DOMAIN params |-> 0]
    /\ runningAtCancel = {}
    /\ other = NoOther
    /\ edit = NoCall
    /\ remix = NoCall
    /\ agg = NoHelperCalled
    /\ est \in [called : {"none"}, fast : BOOLEAN, scaling : ScalingInputs,
                postprocess : PostprocessSlices, cost : {ZeroCost}]

\* cost := EstimateCreate(scaling, postprocess)
CallEstimateCreate ==
    /\ est.called = "none"
    /\ est' = [est EXCEPT !.called = "EstimateCreate",
                          !.cost = EstimateCreate(est.scaling, est.postprocess)]
    /\ UNCHANGED <<callVars, other, agg, edit, remix>>

\* cost := EstimateEdit(fast, scaling, postprocess)
CallEstimateEdit ==
    /\ est.called = "none"
    /\ est' = [est EXCEPT !.called = "EstimateEdit",
                          !.cost = EstimateEdit(est.fast, est.scaling, est.postprocess)]
    /\ UNCHANGED <<callVars, other, agg, edit, remix>>

\* cost := EstimateRemix(fast, scaling, postprocess)
CallEstimateRemix ==
    /\ est.called = "none"
    /\ est' = [est EXCEPT !.called = "EstimateRemix",
                          !.cost = EstimateRemix(est.fast, est.scaling, est.postprocess)]
    /\ UNCHANGED <<callVars, other, agg, edit, remix>>

NextEstimate ==
    \/ CallEstimateCreate
    \/ CallEstimateEdit
    \/ CallEstimateRemix

SpecEstimate == InitEstimate /\ [][NextEstimate]_vars

\* ---------------------------------- BatchCreate, BatchEdit and BatchRemix
\* BatchEdit (lines 410-460) and BatchRemix (463-513) are translated on
\* their own, each on the record of its call.  The three calls are given
\* requests with the same work results, the same config and contexts
\* cancelled at the same moments, and run under one schedule: the
\* BatchCreate call takes a step, then the BatchEdit call and then the
\* BatchRemix call take the step of the same kind.

\* a call of BatchEdit or BatchRemix before it starts
SiblingCall(ps, c, done) ==
    [params |-> ps, configArg |-> c, config |-> c, ctxDone |-> done,
     mainPC |-> "entry", i |-> 0, results |-> << >>, wg |-> 0, semCap |-> 0,
     semLen |-> 0, stopFlag |-> FALSE, stopMu |-> Unlocked,
     pc |-> [t \in DOMAIN ps |-> "idle"]]

\* s.Edit as BatchEdit sees it: (result, error), exactly one of them set
EditResult(req) == IF req = "" THEN Nil ELSE "edit:" \o req

EditError(req) == IF req = "" THEN ErrWork ELSE Nil

EditItems == DOMAIN edit.params

EditN == Cardinality(DOMAIN edit.params)

\* BatchEdit, lines 411-419, when make(chan) succeeds
EditSetup ==
    /\ edit.mainPC = "entry"
    /\ ~MakeChanPanics(Defaulted(edit.configArg).Concurrency)
    /\ edit' = [edit EXCEPT
                   !.config = Defaulted(edit.configArg),
                   !.results = [t \in EditItems |-> ZeroResult],
                   !.semCap = Defaulted(edit.configArg).Concurrency,
                   !.mainPC = IF EditN = 0 THEN "wait" ELSE "checkCtx"]
    /\ UNCHANGED <<callVars, other, agg, est, remix>>

\* BatchEdit, lines 411-417, when make(chan struct{}, config.Concurrency)
\* panics
EditSetupPanic ==
    /\ edit.mainPC = "entry"
    /\ MakeChanPanics(Defaulted(edit.configArg).Concurrency)
    /\ edit' = [edit EXCEPT
                   !.config = Defaulted(edit.configArg),
                   !.results = [t \in EditItems |-> ZeroResult],
                   !.mainPC = "panic"]
    /\ UNCHANGED <<callVars, other, agg, est, remix>>

\* BatchEdit's next loop position after item edit.i
EditNextPC == IF edit.i + 1 = EditN THEN "wait" ELSE "checkCtx"

\* BatchEdit, lines 422-425
EditMainCheckCtx ==
    /\ edit.mainPC = "checkCtx"
    /\ edit' = IF edit.ctxDone
                THEN [edit EXCEPT
                        !.results[edit.i] = BatchResult(edit.i, Nil, Canceled),
                        !.pc[edit.i] = "skipCtx",
                        !.i = edit.i + 1,
                        !.mainPC = EditNextPC]
                ELSE [edit EXCEPT !.mainPC = "lockStop"]
    /\ UNCHANGED <<callVars, other, agg, est, remix>>

\* BatchEdit, line 427
EditMainLock ==
    /\ edit.mainPC = "lockStop"
    /\ edit.stopMu = Unlocked
    /\ edit' = [edit EXCEPT !.stopMu = "main", !.mainPC = "checkStop"]
    /\ UNCHANGED <<callVars, other, agg, est, remix>>

\* BatchEdit, lines 428-433
EditMainCheckStop ==
    /\ edit.mainPC = "checkStop"
    /\ edit' = IF edit.stopFlag
                THEN [edit EXCEPT
                        !.stopMu = Unlocked,
                        !.results[edit.i] = BatchResult(edit.i, Nil, Canceled),
                        !.pc[edit.i] = "skipStop",
                        !.i = edit.i + 1,
                        !.mainPC = EditNextPC]
                ELSE [edit EXCEPT !.stopMu = Unlocked, !.mainPC = "spawn"]
    /\ UNCHANGED <<callVars, other, agg, est, remix>>

\* BatchEdit, lines 435-436 and 455
EditMainSpawn ==
    /\ edit.mainPC = "spawn"
    /\ edit' = [edit EXCEPT
                   !.wg = edit.wg + 1,
                   !.pc[edit.i] = "select",
                   !.i = edit.i + 1,
                   !.mainPC = EditNextPC]
    /\ UNCHANGED <<callVars, other, agg, est, remix>>

\* BatchEdit, lines 458-459
EditMainWait ==
    /\ edit.mainPC = "wait"
    /\ edit.wg = 0
    /\ edit' = [edit EXCEPT !.mainPC = "returned"]
    /\ UNCHANGED <<callVars, other, agg, est, remix>>

\* BatchEdit, lines 439-441: the select takes the send case
EditTaskAcquire(t) ==
    /\ edit.pc[t] = "select"
    /\ edit.semLen < edit.semCap
    /\ edit' = [edit EXCEPT !.semLen = edit.semLen + 1, !.pc[t] = "acquired"]
    /\ UNCHANGED <<callVars, other, agg, est, remix>>

\* BatchEdit, lines 442-444: the select takes the ctx.Done case
EditTaskCancelled(t) ==
    /\ edit.pc[t] = "select"
    /\ edit.ctxDone
    /\ edit' = [edit EXCEPT
                   !.results[t] = BatchResult(t, Nil, Canceled),
                   !.pc[t] = "wgDone"]
    /\ UNCHANGED <<callVars, other, agg, est, remix>>

\* BatchEdit, line 447: the call of s.Edit begins
EditTaskInvoke(t) ==
    /\ edit.pc[t] = "acquired"
    /\ edit' = [edit EXCEPT !.pc[t] = "working"]
    /\ UNCHANGED <<callVars, other, agg, est, remix>>

\* EditTaskReturn that sets the stop flag only for a cancellation error
EditTaskReturnStopsOnCancelOnly(t) ==
    /\ edit.pc[t] = "working"
    /\ edit' = [edit EXCEPT
                   !.results[t] = BatchResult(t, EditResult(edit.params[t]),
                                              EditError(edit.params[t])),
                   !.pc[t] = IF EditError(edit.params[t]) = Canceled /\ edit.config.StopOnError
                             THEN "lockStop" ELSE "release"]
    /\ UNCHANGED <<callVars, other, agg, est, remix>>

\* BatchEdit, lines 447-450: s.Edit returns, the result is stored
EditTaskReturn(t) ==
    /\ edit.pc[t] = "working"
    /\ edit' = [edit EXCEPT
                   !.results[t] = BatchResult(t, EditResult(edit.params[t]),
                                              EditError(edit.params[t])),
                   !.pc[t] = IF EditError(edit.params[t]) # Nil /\ edit.config.StopOnError
                             THEN "lockStop" ELSE "release"]
    /\ UNCHANGED <<callVars, other, agg, est, remix>>

\* BatchEdit, line 451
EditTaskLock(t) ==
    /\ edit.pc[t] = "lockStop"
    /\ edit.stopMu = Unlocked
    /\ edit' = [edit EXCEPT !.stopMu = "task", !.pc[t] = "setStop"]
    /\ UNCHANGED <<callVars, other, agg, est, remix>>

\* BatchEdit, lines 452-453
EditTaskSetStop(t) ==
    /\ edit.pc[t] = "setStop"
    /\ edit' = [edit EXCEPT
                   !.stopFlag = TRUE, !.stopMu = Unlocked, !.pc[t] = "release"]
    /\ UNCHANGED <<callVars, other, agg, est, remix>>

\* BatchEdit, line 441, deferred: <-sem
EditTaskRelease(t) ==
    /\ edit.pc[t] = "release"
    /\ edit' = [edit EXCEPT !.semLen = edit.semLen - 1, !.pc[t] = "wgDone"]
    /\ UNCHANGED <<callVars, other, agg, est, remix>>

\* BatchEdit, line 437, deferred: wg.Done()
EditTaskDone(t) ==
    /\ edit.pc[t] = "wgDone"
    /\ edit' = [edit EXCEPT !.wg = edit.wg - 1, !.pc[t] = "finished"]
    /\ UNCHANGED <<callVars, other, agg, est, remix>>

\* the context of the BatchEdit call is cancelled while the call is running
EditCancel ==
    /\ ~edit.ctxDone
    /\ edit.mainPC \notin {"entry", "returned", "panic"}
    /\ edit' = [edit EXCEPT !.ctxDone = TRUE]
    /\ UNCHANGED <<callVars, other, agg, est, remix>>

\* what of the BatchEdit call takes part in its coordination, and the
\* status of each outcome
EditCoord ==
    [config |-> edit.config, ctxDone |-> edit.ctxDone, mainPC |-> edit.mainPC,
     i |-> edit.i, wg |-> edit.wg, semCap |-> edit.semCap, semLen |-> edit.semLen,
     stopFlag |-> edit.stopFlag, stopMu |-> edit.stopMu, pc |-> edit.pc,
     status |-> [t \in DOMAIN edit.results |->
                   <<edit.results[t].Index, edit.results[t].Result = Nil,
                     edit.results[t].Error>>]]

\* s.Remix as BatchRemix sees it: (result, error), exactly one of them set
RemixResult(req) == IF req = "" THEN Nil ELSE "remix:" \o req

RemixError(req) == IF req = "" THEN ErrWork ELSE Nil

RemixItems == DOMAIN remix.params

RemixN == Cardinality(DOMAIN remix.params)

\* BatchRemix, lines 464-472, when make(chan) succeeds
RemixSetup ==
    /\ remix.mainPC = "entry"
    /\ ~MakeChanPanics(Defaulted(remix.configArg).Concurrency)
    /\ remix' = [remix EXCEPT
                   !.config = Defaulted(remix.configArg),
                   !.results = [t \in RemixItems |-> ZeroResult],
                   !.semCap = Defaulted(remix.configArg).Concurrency,
                   !.mainPC = IF RemixN = 0 THEN "wait" ELSE "checkCtx"]
    /\ UNCHANGED <<callVars, other, agg, est, edit>>

\* BatchRemix, lines 464-470, when make(chan struct{}, config.Concurrency)
\* panics
RemixSetupPanic ==
    /\ remix.mainPC = "entry"
    /\ MakeChanPanics(Defaulted(remix.configArg).Concurrency)
    /\ remix' = [remix EXCEPT
                   !.config = Defaulted(remix.configArg),
                   !.results = [t \in RemixItems |-> ZeroResult],
                   !.mainPC = "panic"]
    /\ UNCHANGED <<callVars, other, agg, est, edit>>

\* BatchRemix's next loop position after item remix.i
RemixNextPC == IF remix.i + 1 = RemixN THEN "wait" ELSE "checkCtx"

\* BatchRemix, lines 475-478
RemixMainCheckCtx ==
    /\ remix.mainPC = "checkCtx"
    /\ remix' = IF remix.ctxDone
                THEN [remix EXCEPT
                        !.results[remix.i] = BatchResult(remix.i, Nil, Canceled),
                        !.pc[remix.i] = "skipCtx",
                        !.i = remix.i + 1,
                        !.mainPC = RemixNextPC]
                ELSE [remix EXCEPT !.mainPC = "lockStop"]
    /\ UNCHANGED <<callVars, other, agg, est, edit>>

\* BatchRemix, line 480
RemixMainLock ==
    /\ remix.mainPC = "lockStop"
    /\ remix.stopMu = Unlocked
    /\ remix' = [remix EXCEPT !.stopMu = "main", !.mainPC = "checkStop"]
    /\ UNCHANGED <<callVars, other, agg, est, edit>>

\* BatchRemix, lines 481-486
RemixMainCheckStop ==
    /\ remix.mainPC = "checkStop"
    /\ remix' = IF remix.stopFlag
                THEN [remix EXCEPT
                        !.stopMu = Unlocked,
                        !.results[remix.i] = BatchResult(remix.i, Nil, Canceled),
                        !.pc[remix.i] = "skipStop",
                        !.i = remix.i + 1,
                        !.mainPC = RemixNextPC]
                ELSE [remix EXCEPT !.stopMu = Unlocked, !.mainPC = "spawn"]
    /\ UNCHANGED <<callVars, other, agg, est, edit>>

\* BatchRemix, lines 488-489 and 508
RemixMainSpawn ==
    /\ remix.mainPC = "spawn"
    /\ remix' = [remix EXCEPT
                   !.wg = remix.wg + 1,
                   !.pc[remix.i] = "select",
                   !.i = remix.i + 1,
                   !.mainPC = RemixNextPC]
    /\ UNCHANGED <<callVars, other, agg, est, edit>>

\* BatchRemix, lines 511-512
RemixMainWait ==
    /\ remix.mainPC = "wait"
    /\ remix.wg = 0
    /\ remix' = [remix EXCEPT !.mainPC = "returned"]
    /\ UNCHANGED <<callVars, other, agg, est, edit>>

\* BatchRemix, lines 492-494: the select takes the send case
RemixTaskAcquire(t) ==
    /\ remix.pc[t] = "select"
    /\ remix.semLen < remix.semCap
    /\ remix' = [remix EXCEPT !.semLen = remix.semLen + 1, !.pc[t] = "acquired"]
    /\ UNCHANGED <<callVars, other, agg, est, edit>>

\* BatchRemix, lines 495-497: the select takes the ctx.Done case
RemixTaskCancelled(t) ==
    /\ remix.pc[t] = "select"
    /\ remix.ctxDone
    /\ remix' = [remix EXCEPT
                   !.results[t] = BatchResult(t, Nil, Canceled),
                   !.pc[t] = "wgDone"]
    /\ UNCHANGED <<callVars, other, agg, est, edit>>

\* BatchRemix, line 500: the call of s.Remix begins
RemixTaskInvoke(t) ==
    /\ remix.pc[t] = "acquired"
    /\ remix' = [remix EXCEPT !.pc[t] = "working"]
    /\ UNCHANGED <<callVars, other, agg, est, edit>>

\* BatchRemix, lines 500-503: s.Remix returns, the result is stored
RemixTaskReturn(t) ==
    /\ remix.pc[t] = "working"
    /\ remix' = [remix EXCEPT
                   !.results[t] = BatchResult(t, RemixResult(remix.params[t]),
                                              RemixError(remix.params[t])),
                   !.pc[t] = IF RemixError(remix.params[t]) # Nil /\ remix.config.StopOnError
                             THEN "lockStop" ELSE "release"]
    /\ UNCHANGED <<callVars, other, agg, est, edit>>

\* BatchRemix, line 504
RemixTaskLock(t) ==
    /\ remix.pc[t] = "lockStop"
    /\ remix.stopMu = Unlocked
    /\ remix' = [remix EXCEPT !.stopMu = "task", !.pc[t] = "setStop"]
    /\ UNCHANGED <<callVars, other, agg, est, edit>>

\* BatchRemix, lines 505-506
RemixTaskSetStop(t) ==
    /\ remix.pc[t] = "setStop"
    /\ remix' = [remix EXCEPT
                   !.stopFlag = TRUE, !.stopMu = Unlocked, !.pc[t] = "release"]
    /\ UNCHANGED <<callVars, other, agg, est, edit>>

\* BatchRemix, line 494, deferred: <-sem
RemixTaskRelease(t) ==
    /\ remix.pc[t] = "release"
    /\ remix' = [remix EXCEPT !.semLen = remix.semLen - 1, !.pc[t] = "wgDone"]
    /\ UNCHANGED <<callVars, other, agg, est, edit>>

\* BatchRemix, line 490, deferred: wg.Done()
RemixTaskDone(t) ==
    /\ remix.pc[t] = "wgDone"
    /\ remix' = [remix EXCEPT !.wg = remix.wg - 1, !.pc[t] = "finished"]
    /\ UNCHANGED <<callVars, other, agg, est, edit>>

\* the context of the BatchRemix call is cancelled while the call is running
RemixCancel ==
    /\ ~remix.ctxDone
    /\ remix.mainPC \notin {"entry", "returned", "panic"}
    /\ remix' = [remix EXCEPT !.ctxDone = TRUE]
    /\ UNCHANGED <<callVars, other, agg, est, edit>>

\* what of the BatchRemix call takes part in its coordination, and the
\* status of each outcome
RemixCoord ==
    [config |-> remix.config, ctxDone |-> remix.ctxDone, mainPC |-> remix.mainPC,
     i |-> remix.i, wg |-> remix.wg, semCap |-> remix.semCap, semLen |-> remix.semLen,
     stopFlag |-> remix.stopFlag, stopMu |-> remix.stopMu, pc |-> remix.pc,
     status |-> [t \in DOMAIN remix.results |->
                   <<remix.results[t].Index, remix.results[t].Result = Nil,
                     remix.results[t].Error>>]]

\* what of the BatchCreate call takes part in its coordination, and the
\* status of each outcome
CreateCoord ==
    [config |-> config, ctxDone |-> ctxDone, mainPC |-> mainPC,
     i |-> i, wg |-> wg, semCap |-> semCap, semLen |-> semLen,
     stopFlag |-> stopFlag, stopMu |-> stopMu, pc |-> pc,
     status |-> [t \in DOMAIN results |->
                   <<results[t].Index, results[t].Result = Nil,
                     results[t].Error>>]]

TripleItems == 2

\* the Concurrency values the three calls are given
TripleConcurrency == {-1, 0, 1, 2}

TripleConfigs ==
    {NilConfig} \cup [isNil : {FALSE}, Concurrency : TripleConcurrency,
                      StopOnError : BOOLEAN]

InitTriple ==
    /\ params \in UNION {ParamsOfLen(n) : n \in 0..TripleItems}
    /\ configArg \in TripleConfigs
    /\ config = configArg
    /\ ctxDone \in BOOLEAN
    /\ ctxDoneAtCall = ctxDone
    /\ mainPC = "entry"
    /\ i = 0
    /\ results = << >>
    /\ wg = 0
    /\ semCap = 0
    /\ semLen = 0
    /\ stopFlag = FALSE
    /\ stopMu = Unlocked
    /\ pc = [t \in DOMAIN params |-> "idle"]
    /\ branch = [t \in DOMAIN params |-> "none"]
    /\ invoked = [t \in DOMAIN params |-> 0]
    /\ writes = [t \in DOMAIN params |-> 0]
    /\ acquires = [t \in DOMAIN params |-> 0]
    /\ releases = [t \in DOMAIN params |-> 0]
    /\ runningAtCancel = {}
    /\ other = NoOther
    /\ edit = SiblingCall(params, configArg, ctxDone)
    /\ remix = SiblingCall(params, configArg, ctxDone)
    /\ agg = NoHelperCalled
    /\ est = NoEstimate

\* all three calls have taken the same steps
InSync == EditCoord = CreateCoord /\ RemixCoord = CreateCoord

\* the BatchCreate call has taken a step the BatchEdit call has not:
\* a cancellation, a step of the loop, or a step of the goroutine of t
EditOwesCancel == edit.ctxDone # ctxDone

EditOwesMain == edit.ctxDone = ctxDone /\ <<edit.mainPC, edit.i>> # <<mainPC, i>>

EditOwesTask(t) ==
    /\ edit.ctxDone = ctxDone
    /\ <<edit.mainPC, edit.i>> = <<mainPC, i>>
    /\ edit.pc[t] # pc[t]

\* the BatchEdit call has caught up and the BatchRemix call has not
RemixOwesCancel == EditCoord = CreateCoord /\ remix.ctxDone # ctxDone

RemixOwesMain ==
    /\ EditCoord = CreateCoord
    /\ remix.ctxDone = ctxDone
    /\ <<remix.mainPC, remix.i>> # <<mainPC, i>>

RemixOwesTask(t) ==
    /\ EditCoord = CreateCoord
    /\ remix.ctxDone = ctxDone
    /\ <<remix.mainPC, remix.i>> = <<mainPC, i>>
    /\ remix.pc[t] # pc[t]

\* the three calls under one schedule
NextTriple ==
    \/ InSync /\ Setup
    \/ InSync /\ SetupPanic
    \/ InSync /\ MainCheckCtx
    \/ InSync /\ MainLock
    \/ InSync /\ MainCheckStop
    \/ InSync /\ MainSpawn
    \/ InSync /\ MainWait
    \/ InSync /\ Cancel
    \/ \E t \in Items : InSync /\ TaskAcquire(t)
    \/ \E t \in Items : InSync /\ TaskCancelled(t)
    \/ \E t \in Items : InSync /\ TaskInvoke(t)
    \/ \E t \in Items : InSync /\ TaskReturn(t)
    \/ \E t \in Items : InSync /\ TaskLock(t)
    \/ \E t \in Items : InSync /\ TaskSetStop(t)
    \/ \E t \in Items : InSync /\ TaskRelease(t)
    \/ \E t \in Items : InSync /\ TaskDone(t)
    \/ EditOwesCancel /\ EditCancel
    \/ EditOwesMain /\ EditSetup
    \/ EditOwesMain /\ EditSetupPanic
    \/ EditOwesMain /\ EditMainCheckCtx
    \/ EditOwesMain /\ EditMainLock
    \/ EditOwesMain /\ EditMainCheckStop
    \/ EditOwesMain /\ EditMainSpawn
    \/ EditOwesMain /\ EditMainWait
    \/ \E t \in EditItems : EditOwesTask(t) /\ pc[t] = "acquired" /\ EditTaskAcquire(t)
    \/ \E t \in EditItems : EditOwesTask(t) /\ pc[t] = "wgDone" /\ EditTaskCancelled(t)
    \/ \E t \in EditItems : EditOwesTask(t) /\ EditTaskInvoke(t)
    \/ \E t \in EditItems : EditOwesTask(t) /\ EditTaskReturn(t)
    \/ \E t \in EditItems : EditOwesTask(t) /\ EditTaskLock(t)
    \/ \E t \in EditItems : EditOwesTask(t) /\ EditTaskSetStop(t)
    \/ \E t \in EditItems : EditOwesTask(t) /\ EditTaskRelease(t)
    \/ \E t \in EditItems : EditOwesTask(t) /\ EditTaskDone(t)
    \/ RemixOwesCancel /\ RemixCancel
    \/ RemixOwesMain /\ RemixSetup
    \/ RemixOwesMain /\ RemixSetupPanic
    \/ RemixOwesMain /\ RemixMainCheckCtx
    \/ RemixOwesMain /\ RemixMainLock
    \/ RemixOwesMain /\ RemixMainCheckStop
    \/ RemixOwesMain /\ RemixMainSpawn
    \/ RemixOwesMain /\ RemixMainWait
    \/ \E t \in RemixItems : RemixOwesTask(t) /\ pc[t] = "acquired" /\ RemixTaskAcquire(t)
    \/ \E t \in RemixItems : RemixOwesTask(t) /\ pc[t] = "wgDone" /\ RemixTaskCancelled(t)
    \/ \E t \in RemixItems : RemixOwesTask(t) /\ RemixTaskInvoke(t)
    \/ \E t \in RemixItems : RemixOwesTask(t) /\ RemixTaskReturn(t)
    \/ \E t \in RemixItems : RemixOwesTask(t) /\ RemixTaskLock(t)
    \/ \E t \in RemixItems : RemixOwesTask(t) /\ RemixTaskSetStop(t)
    \/ \E t \in RemixItems : RemixOwesTask(t) /\ RemixTaskRelease(t)
    \/ \E t \in RemixItems : RemixOwesTask(t) /\ RemixTaskDone(t)

SpecTriple == InitTriple /\ [][NextTriple]_vars

\* ------------------------------------------------------------ properties

\* the items whose work function has begun and not yet returned
InFlight == {t \in Items : pc[t] = "working"}

\* the call is past its set-up and did not panic
Running == mainPC \notin {"entry", "panic"}

Returned == mainPC = "returned"

\* the dispatch loop skipped item k
Skipped(k) == pc[k] \in {"skipCtx", "skipStop"}

\* item k passed both checks of the dispatch loop
Admitted(k) == pc[k] \notin {"idle", "skipCtx", "skipStop"} \/ (i = k /\ mainPC = "spawn")

\* the dispatch loop has not yet decided about item k
Pending(k) == pc[k] = "idle" /\ ~(i = k /\ mainPC = "spawn")

\* the work function of item j has returned an error
Failed(j) == /\ pc[j] \in {"lockStop", "setStop", "release", "wgDone", "finished"}
             /\ branch[j] = "sem"
             /\ WorkError(params[j]) # Nil

\* what the work function returns for item t
RealOutcome(t) == BatchResult(t, WorkResult(params[t]), WorkError(params[t]))

CancelOutcome(t) == BatchResult(t, Nil, Canceled)

\* C1: whenever a batch call returns, the slice has one outcome per
\* request and outcome k carries Index k, whatever the configuration, the
\* cancellation and the schedule were.
C1_OneOutcomePerItemInOrder ==
    Returned => /\ DOMAIN results = 0..(N - 1)
                /\ \A k \in DOMAIN results : results[k].Index = k

\* C1 witness: a returned call of three requests, the last of which ran
C1_Witness ==
    /\ Returned
    /\ N = 3
    /\ pc[2] = "finished"
    /\ results[2].Index = 2

\* C2: while a call runs, the work functions in progress never outnumber
\* config.Concurrency.
C2_InFlightAtMostConcurrency ==
    Running => Cardinality(InFlight) <= config.Concurrency

\* C2 witness: the gate is full of running work and a goroutine waits
C2_Witness ==
    /\ Running
    /\ config.Concurrency >= 1
    /\ Cardinality(InFlight) = config.Concurrency
    /\ \E t \in Items : pc[t] = "select"
    /\ ~ctxDone

\* the call of Example 3: ["ok", "", "ok"], Concurrency 1, StopOnError
ScenarioB ==
    /\ params = [t \in 0..2 |-> IF t = 1 THEN "" ELSE "ok"]
    /\ ~configArg.isNil
    /\ configArg.Concurrency = 1
    /\ configArg.StopOnError
    /\ ~ctxDone

\* C3: in scenario B every schedule ends with item 0 successful, item 1
\* holding the work error and item 2 cancelled without its work function
\* having been called.
C3_ScenarioBStopsAfterFirstError ==
    (ScenarioB /\ Returned) =>
        /\ results[0] = RealOutcome(0)
        /\ results[1] = BatchResult(1, Nil, ErrWork)
        /\ results[2] = CancelOutcome(2)
        /\ invoked[2] = 0

\* C4: a non-nil config with Concurrency <= 0 runs with a gate of
\* capacity 5 and the call does not fail.
C4_NonPositiveConcurrencyDefaultsToFive ==
    (~configArg.isNil /\ configArg.Concurrency <= 0 /\ mainPC # "entry") =>
        /\ mainPC # "panic"
        /\ semCap = DefaultConcurrency

\* C5: no work function begins once the context is cancelled: every
\* step that starts a call of the work function is taken with ctx live.
C5_NoWorkBeginsAfterCancel ==
    [][\A t \in Items : (pc[t] = "acquired" /\ pc'[t] = "working") => ~ctxDone]_vars

C7_PreCancelledSkipsAll ==
    ctxDoneAtCall =>
        /\ wg = 0
        /\ \A t \in Items : pc[t] \in {"idle", "skipCtx"} /\ invoked[t] = 0
        /\ Returned => \A t \in Items : results[t] = CancelOutcome(t)

\* C7 witness: a pre-cancelled call of three requests has returned
C7_Witness ==
    /\ ctxDoneAtCall
    /\ Returned
    /\ N = 3
    /\ \A t \in Items : results[t].Error = Canceled

\* C8: without StopOnError no item is skipped for the stop flag, no work
\* function runs twice, an item goes without its work function only by
\* cancellation of the context, and a call that was never cancelled has
\* called the work function of every item exactly once.
C8_NoSkipWithoutStopOnError ==
    ~Defaulted(configArg).StopOnError =>
        \A t \in Items :
            /\ pc[t] # "skipStop"
            /\ invoked[t] <= 1
            /\ (pc[t] = "skipCtx" \/ branch[t] = "done") => ctxDone
            /\ Returned =>
                  \/ invoked[t] = 1
                  \/ invoked[t] = 0 /\ (pc[t] = "skipCtx" \/ branch[t] = "done")

\* C8 witness: an uncancelled call without StopOnError has returned, an
\* item failed and a later item still ran
C8_Witness ==
    /\ Returned
    /\ ~ctxDone
    /\ ~config.StopOnError
    /\ \E t, u \in Items :
          /\ t < u
          /\ results[t].Error = ErrWork
          /\ invoked[u] = 1
          /\ results[u].Error = Nil

C10_StopFlagAbortsNoTask ==
    \A t \in Items :
        /\ (pc[t] \in {"wgDone", "finished"} /\ branch[t] # "sem") =>
               (branch[t] = "done" /\ ctxDone)
        /\ (pc[t] = "finished" /\ branch[t] = "sem") =>
               (invoked[t] = 1 /\ results[t] = RealOutcome(t))

\* C10 witness: the gate has one slot, the flag is set (its setter held
\* the slot while setting it), and item t, which therefore got the slot
\* after the flag was set, has stored a success
C10_Witness ==
    /\ semCap = 1
    /\ stopFlag
    /\ ~ctxDone
    /\ \E t \in Items :
          /\ pc[t] = "release"
          /\ invoked[t] = 1
          /\ results[t] = RealOutcome(t)
          /\ results[t].Error = Nil

\* C11: with fair scheduling and terminating work functions every batch
\* call returns normally, whatever its configuration.
C11_AlwaysReturns == <>(mainPC = "returned")

\* the goroutine of item t has left the batch call's code
Gone(t) == pc[t] \in {"skipCtx", "skipStop", "finished"}

\* the goroutine of item t holds a slot of the gate
Holding(t) == pc[t] \in {"acquired", "working", "lockStop", "setStop", "release"}

\* C12: when the call has returned every goroutine it started has
\* finished, also those that recorded a cancellation: none is left to
\* write a slot, hold the gate or the lock, or run a work function.
C12_JoinedBeforeReturn ==
    Returned =>
        /\ wg = 0
        /\ semLen = 0
        /\ stopMu = Unlocked
        /\ InFlight = {}
        /\ \A t \in Items : Gone(t)

\* C12 witness: a returned call in which one goroutine recorded the
\* cancellation and another one ran its work function
C12_Witness ==
    /\ Returned
    /\ \E t, u \in Items :
          /\ branch[t] = "done"
          /\ pc[t] = "finished"
          /\ branch[u] = "sem"
          /\ pc[u] = "finished"

\* C13: a goroutine obtains at most one slot, never gives back more than
\* it obtained, holds exactly the slot it has not given back, and has
\* given it back when it ends, whether its work function failed or not.
C13_OneReleasePerAcquire ==
    \A t \in Items :
        /\ acquires[t] <= 1
        /\ releases[t] <= acquires[t]
        /\ Holding(t) <=> (acquires[t] = 1 /\ releases[t] = 0)
        /\ pc[t] \in {"wgDone", "finished"} => releases[t] = acquires[t]

\* C13 witness: with StopOnError a goroutine whose work function failed
\* has set the flag, given its slot back and finished
C13_Witness ==
    \E t \in Items :
        /\ config.StopOnError
        /\ stopFlag
        /\ pc[t] = "finished"
        /\ results[t].Error = ErrWork
        /\ acquires[t] = 1
        /\ releases[t] = 1

\* C14: the work function is called at most once per item, and only by a
\* goroutine that obtained a slot.
C14_WorkOncePerAdmittedItem ==
    \A t \in Items :
        /\ invoked[t] <= 1
        /\ invoked[t] <= acquires[t]
        /\ invoked[t] = 1 => branch[t] = "sem"

\* C14 witness: a returned call in which one item ran and another,
\* cancelled while waiting, did not
C14_Witness ==
    /\ Returned
    /\ \E t, u \in Items :
          /\ invoked[t] = 1
          /\ invoked[u] = 0
          /\ branch[u] = "done"

\* item k has an outcome stored by the loop or by its own goroutine
Written(k) ==
    pc[k] \in {"skipCtx", "skipStop", "lockStop", "setStop", "release",
               "wgDone", "finished"}

\* C15: a slot is written at most once, exactly when its item is skipped
\* by the loop or its own goroutine stored an outcome, and every slot has
\* been written once when the call returns.
C15_EachSlotWrittenOnce ==
    \A k \in Items :
        /\ writes[k] <= 1
        /\ writes[k] = 1 <=> Written(k)
        /\ Returned => writes[k] = 1

\* C15 witness: a returned call of three requests with a slot written by
\* the loop and a slot written by a goroutine
C15_Witness ==
    /\ Returned
    /\ N = 3
    /\ \E j, k \in Items : Skipped(j) /\ pc[k] = "finished"
    /\ \A k \in Items : writes[k] = 1

\* C16: in a returned call the slot of every item whose work function
\* was called holds what the work function returns for that item's own
\* request.
C16_SlotHoldsOwnResult ==
    Returned =>
        \A t \in Items : invoked[t] >= 1 => results[t] = RealOutcome(t)

\* C16 witness: a returned call in which a failing and a succeeding
\* request both ran, the failing one at the higher index
C16_Witness ==
    /\ Returned
    /\ \E t, u \in Items :
          /\ t < u
          /\ invoked[t] = 1
          /\ invoked[u] = 1
          /\ results[t].Error = Nil
          /\ results[u].Error = ErrWork

\* C17: every outcome of a returned call has exactly one of Result and
\* Error set.
C17_ExactlyOneOfResultAndError ==
    Returned =>
        \A t \in Items : (results[t].Result = Nil) # (results[t].Error = Nil)

\* C17 witness: a returned call holding a success, a work error and a
\* cancellation
C17_Witness ==
    /\ Returned
    /\ \E a, b, c \in Items :
          /\ results[a].Result # Nil
          /\ results[b].Error = ErrWork
          /\ results[c].Error = Canceled

\* C18: a work function that was running when the context was cancelled
\* keeps running, and the only way it ends is by returning, with its own
\* outcome stored in its slot.
C18_RunningWorkSurvivesCancel ==
    [][\A t \in Items :
          /\ (pc[t] = "working" /\ ~ctxDone /\ ctxDone') =>
                 (pc'[t] = "working" /\ t \in runningAtCancel')
          /\ t \in runningAtCancel =>
                 /\ pc[t] = "working"
                 /\ \/ pc'[t] = "working" /\ t \in runningAtCancel'
                    \/ /\ pc'[t] \in {"lockStop", "release"}
                       /\ results'[t] = RealOutcome(t)
                       /\ writes'[t] = writes[t] + 1]_vars

\* C18 witness: the context has been cancelled under a running work
\* function, which is still running
C18_Witness ==
    /\ ctxDone
    /\ \E t \in runningAtCancel : pc[t] = "working" /\ invoked[t] = 1

\* the outcome sequence in which every item ran
AllRan == [t \in Items |-> RealOutcome(t)]

C20_NilConfigRunsWithDefaults ==
    mainPC # "entry" =>
        /\ mainPC # "panic"
        /\ config = DefaultBatchConfig
        /\ semCap = DefaultConcurrency
        /\ Cardinality(InFlight) <= DefaultConcurrency
        /\ ~stopFlag
        /\ \A t \in Items : pc[t] # "skipStop"
        /\ Returned => results = AllRan

\* C20 witness: five work functions run at once, the failing one among
\* them, and the goroutine of the sixth request waits for a slot
C20_Witness ==
    /\ configArg.isNil
    /\ Cardinality(InFlight) = DefaultConcurrency
    /\ pc[0] = "working"
    /\ \E t \in Items : pc[t] = "select"

\* the goroutines of the first call that hold a slot of its gate
Holders == {t \in Items : Holding(t)}

\* the goroutines of the second call that hold a slot of its gate
OtherHolders ==
    {t \in OtherItems :
        other.pc[t] \in {"acquired", "working", "lockStop", "setStop", "release"}}

\* C21: two calls running at once on the same Service share neither the
\* stop flag nor the gate: an item of a call is skipped for the stop flag
\* only when that call's own flag is set after a failure among its own
\* earlier requests, each gate holds exactly the slots of its own call's
\* goroutines, and a goroutine waiting for a slot can take one whenever
\* its own call holds fewer than Concurrency, whatever the other call holds.
C21_ConcurrentCallsShareNoState ==
    /\ \A k \in Items :
          pc[k] = "skipStop" =>
              (stopFlag /\ \E j \in Items : j < k /\ results[j].Error = ErrWork)
    /\ \A k \in OtherItems :
          other.pc[k] = "skipStop" =>
              (other.stopFlag /\ \E j \in OtherItems :
                                    j < k /\ other.results[j].Error = ErrWork)
    /\ mainPC # "entry" => semLen = Cardinality(Holders)
    /\ other.mainPC # "entry" => other.semLen = Cardinality(OtherHolders)
    /\ \A t \in Items :
          (pc[t] = "select" /\ Cardinality(Holders) < config.Concurrency)
              => ENABLED TaskAcquire(t)

\* C21 witness: the second call's flag is set and its failing goroutine
\* still holds its call's only slot, while the first call, whose requests
\* all succeed, has a work function running in its own only slot and its
\* loop reads its own flag for the next item
C21_Witness ==
    /\ other.stopFlag
    /\ other.semLen = 1
    /\ \E u \in OtherItems : other.pc[u] = "release"
    /\ ~stopFlag
    /\ \A t \in Items : params[t] = "ok"
    /\ semLen = 1
    /\ pc[0] = "working"
    /\ mainPC = "checkStop"
    /\ i = 1

\* C22: SuccessCount and ErrorCount of an outcome sequence always add up
\* to its length, and a returned call whose context was never cancelled
\* and whose work function succeeded for every request holds N successes:
\* SuccessCount is N and ErrorCount is 0.
C22_CountsAddUpAndAllSucceed ==
    /\ SuccessCount(results) + ErrorCount(results) = Cardinality(DOMAIN results)
    /\ (Returned /\ ~ctxDone /\ \A t \in Items : WorkError(params[t]) = Nil) =>
          /\ \A t \in Items : results[t].Error = Nil /\ results[t].Result # Nil
          /\ SuccessCount(results) = N
          /\ ErrorCount(results) = 0

\* C22 witness: an uncancelled call of three succeeding requests has
\* returned and SuccessCount is 3
C22_Witness ==
    /\ Returned
    /\ ~ctxDone
    /\ N = 3
    /\ \A t \in Items : WorkError(params[t]) = Nil
    /\ SuccessCount(results) = 3
    /\ ErrorCount(results) = 0

\* an outcome sequence as a sequence indexed from 1
AsSeq(rs) == [k \in 1..Cardinality(DOMAIN rs) |-> rs[k - 1]]

\* the Result fields of the outcomes without an error, in index order
SuccessValues(rs) ==
    LET sel == SelectSeq(AsSeq(rs), LAMBDA r : r.Error = Nil)
    IN  [k \in 1..Len(sel) |-> sel[k].Result]

\* the Error fields of the outcomes with an error, in index order
ErrorValuesOf(rs) ==
    LET sel == SelectSeq(AsSeq(rs), LAMBDA r : r.Error # Nil)
    IN  [k \in 1..Len(sel) |-> sel[k].Error]

\* C23: a call of a helper leaves the outcome sequence as it was;
\* Successful returns the Result of exactly the outcomes whose Error is
\* nil, in index order, Errors returns exactly the non-nil Errors in index
\* order, and their lengths are SuccessCount and ErrorCount.
C23_HelpersFilterInOrder ==
    [][/\ results' = results
       /\ "Successful" \in agg'.called =>
             /\ agg'.Successful = SuccessValues(results)
             /\ Len(agg'.Successful) = SuccessCount(results)
       /\ "Errors" \in agg'.called =>
             /\ agg'.Errors = ErrorValuesOf(results)
             /\ Len(agg'.Errors) = ErrorCount(results)
       /\ "SuccessCount" \in agg'.called =>
             agg'.SuccessCount = Cardinality({k \in DOMAIN results : results[k].Error = Nil})
       /\ "ErrorCount" \in agg'.called =>
             agg'.ErrorCount = Cardinality({k \in DOMAIN results : results[k].Error # Nil})]_vars

\* C23 witness: all four helpers were called on a work error, a success
\* and a cancellation, in this order
C23_Witness ==
    /\ agg.called = {"SuccessCount", "ErrorCount", "Successful", "Errors"}
    /\ Cardinality(DOMAIN results) = 3
    /\ results[0].Error = ErrWork
    /\ results[1] = BatchResult(1, "image:ok", Nil)
    /\ results[2].Error = Canceled
    /\ agg.Successful = <<"image:ok">>
    /\ agg.Errors = <<ErrWork, Canceled>>
    /\ agg.SuccessCount = 1
    /\ agg.ErrorCount = 2

\* C24: stopMu is held by the loop exactly while it reads the flag (lines
\* 363-369) and by a goroutine exactly while it writes it (lines 387-389):
\* never by more than one of them, and never by a goroutine whose work
\* function is in progress; the loop calls no work function at all.
C24_LockNotHeldAcrossWork ==
    /\ stopMu = "main" <=> mainPC = "checkStop"
    /\ stopMu = "task" <=> \E t \in Items : pc[t] = "setStop"
    /\ Cardinality({t \in Items : pc[t] = "setStop"}) <= 1
    /\ stopMu = "task" =>
          \A t \in Items : pc[t] = "setStop" => (t \notin InFlight /\ invoked[t] = 1 /\ writes[t] = 1)

\* C24 witness: a goroutine holds the lock to set the flag while the work
\* function of another goroutine is in progress and the loop waits for
\* the lock
C24_Witness ==
    /\ stopMu = "task"
    /\ mainPC = "lockStop"
    /\ \E t, u \in Items :
          /\ pc[t] = "setStop"
          /\ pc[u] = "working"

\* C25: without StopOnError the stop flag is never set, no goroutine ever
\* goes for the lock to set it, and no outcome comes from the stop-flag
\* skip of the loop: a cancellation error in a slot means ctx is cancelled.
C25_FlagNeverSetWithoutStopOnError ==
    ~Defaulted(configArg).StopOnError =>
        /\ ~stopFlag
        /\ stopMu # "task"
        /\ \A t \in Items :
              /\ pc[t] \notin {"lockStop", "setStop", "skipStop"}
              /\ (mainPC # "entry" /\ results[t].Error = Canceled) => ctxDone

\* C25 witness: an uncancelled call without StopOnError returned through
\* a gate of one slot with every one of its three requests failed
C25_Witness ==
    /\ Returned
    /\ ~ctxDone
    /\ ~config.StopOnError
    /\ ~stopFlag
    /\ semCap = 1
    /\ N = 3
    /\ \A t \in Items : results[t].Error = ErrWork /\ pc[t] = "finished"

\* C26: an Estimate function called with scaling 1 and no postprocessing
\* returns TotalCredits equal to BaseCredits: 18 for create, 30 for edit
\* and for remix, 5 for fast edit and for fast remix.
C26_BaseCreditsAtScalingOne ==
    (est.called # "none" /\ est.scaling = ScalingUnit /\ est.postprocess = << >>) =>
        /\ est.cost.TotalCredits = est.cost.BaseCredits
        /\ est.cost.BaseCredits =
              (CASE est.called = "EstimateCreate" -> 18
                 [] est.called \in {"EstimateEdit", "EstimateRemix"} /\ ~est.fast -> 30
                 [] est.called \in {"EstimateEdit", "EstimateRemix"} /\ est.fast -> 5)

\* C26 witness: EstimateEdit(true, 1, nil) has returned 5 credits
C26_Witness ==
    /\ est.called = "EstimateEdit"
    /\ est.fast
    /\ est.scaling = ScalingUnit
    /\ est.postprocess = << >>
    /\ est.cost = [BaseCredits |-> 5, TotalCredits |-> 5]

\* the goroutines that were started and have not finished
Unfinished == {t \in Items : pc[t] \notin {"idle", "skipCtx", "skipStop", "finished"}}

\* C27: the loop never waits for the gate: at its checks and at the go
\* statement it can always take its step, however many slots are taken;
\* it starts one goroutine per item it does not skip, so the goroutines
\* started and unfinished number up to N, while the work functions in
\* progress stay within Concurrency.
C27_LoopNeverBlocksOnGate ==
    /\ mainPC = "checkCtx" => ENABLED MainCheckCtx
    /\ mainPC = "checkStop" => ENABLED MainCheckStop
    /\ mainPC = "spawn" => ENABLED MainSpawn
    /\ wg = Cardinality(Unfinished)
    /\ wg <= N
    /\ Running => Cardinality(InFlight) <= config.Concurrency
    /\ mainPC \in {"wait", "returned"} => \A t \in Items : Skipped(t) \/ pc[t] # "idle"

\* C27 witness: with Concurrency 1 the loop has started three goroutines
\* and reached wg.Wait while one work function runs and two goroutines
\* wait for the slot
C27_Witness ==
    /\ mainPC = "wait"
    /\ config.Concurrency = 1
    /\ wg = 3
    /\ Cardinality(Unfinished) = 3
    /\ Cardinality(InFlight) = 1
    /\ Cardinality({t \in Items : pc[t] = "select"}) = 2

\* C28: an item the loop skips for the stop flag holds context.Canceled
\* with no Result, also when ctx was never cancelled: its outcome is the
\* very outcome the loop records for an item it skips for a cancelled
\* ctx, so the outcome does not tell the two causes apart.
C28_StopSkipRecordsCanceled ==
    \A k \in Items :
        /\ pc[k] = "skipStop" => (results[k].Error = Canceled /\ results[k].Result = Nil)
        /\ pc[k] = "skipCtx" => (results[k].Error = Canceled /\ results[k].Result = Nil)
        /\ Skipped(k) => results[k] = BatchResult(k, Nil, Canceled)

\* C28 witness: a call whose ctx was never cancelled returned with two
\* items skipped for the stop flag, both holding context.Canceled
C28_Witness ==
    /\ Returned
    /\ ~ctxDone
    /\ N = 3
    /\ pc[1] = "skipStop"
    /\ pc[2] = "skipStop"
    /\ results[1].Error = Canceled
    /\ results[2].Error = Canceled

\* C29: once the loop has skipped an item, for cancellation or for the
\* stop flag, it skips every later item it comes to and starts no
\* goroutine for any of them: the skipped items form a suffix of the
\* index range.
C29_SkippedItemsFormSuffix ==
    \A j, k \in Items :
        (j < k /\ Skipped(j)) =>
            /\ pc[k] \in {"idle", "skipCtx", "skipStop"}
            /\ ~(i = k /\ mainPC = "spawn")
            /\ i > k => Skipped(k)
            /\ invoked[k] = 0

\* C29 witness: a returned call of three requests whose first item ran,
\* whose second was skipped for the stop flag and whose third was skipped
\* for the cancellation that came in between
C29_Witness ==
    /\ Returned
    /\ N = 3
    /\ pc[0] = "finished"
    /\ pc[1] = "skipStop"
    /\ pc[2] = "skipCtx"

\* the goroutine of item t has given its slot back
Released(t) == releases[t] = 1

\* C30: with StopOnError a goroutine whose work function failed records
\* its outcome, then sets the stop flag, then gives its slot back: from
\* the flag write on its slot holds the work error, once its slot is
\* given back the flag is set, and the flag, once set, stays set.
C30_FlagSetBeforeReleaseAndNeverCleared ==
    [][/\ stopFlag => stopFlag'
       /\ \A t \in Items :
             /\ (config'.StopOnError /\ Released(t)' /\ results'[t].Error = ErrWork)
                   => stopFlag'
             /\ pc'[t] \in {"lockStop", "setStop"} =>
                   (results'[t] = RealOutcome(t)' /\ ~Released(t)' /\ Holding(t)')
             /\ (pc[t] = "setStop" /\ pc'[t] # "setStop") =>
                   (stopFlag' /\ pc'[t] = "release" /\ ~Released(t)')]_vars

\* C30 witness: the failing goroutine has given its slot back and
\* finished, the flag is set, and the goroutine of a later item, started
\* before the flag was set, now holds the only slot
C30_Witness ==
    /\ config.StopOnError
    /\ stopFlag
    /\ semCap = 1
    /\ \E t, u \in Items :
          /\ t < u
          /\ Released(t)
          /\ results[t].Error = ErrWork
          /\ pc[u] = "working"

\* C31: the outcome of an item whose work function was not called, be it
\* skipped by the loop or cancelled while waiting for a slot, has an Error
\* and no Result, and no slot of a returned call is left with neither.
C31_NoZeroSlotAtReturn ==
    /\ \A t \in Items :
          (Skipped(t) \/ branch[t] = "done") =>
              (invoked[t] = 0 /\ results[t].Error # Nil /\ results[t].Result = Nil)
    /\ Returned =>
          \A t \in Items :
              /\ invoked[t] = 0 => (results[t].Error # Nil /\ results[t].Result = Nil)
              /\ ~(results[t].Error = Nil /\ results[t].Result = Nil)
              /\ invoked[t] = 0 <=> (Skipped(t) \/ branch[t] = "done")

\* C31 witness: a returned call whose first request failed, whose second
\* goroutine was cancelled while it waited for the slot and whose third
\* item was skipped for the stop flag
C31_Witness ==
    /\ Returned
    /\ N = 3
    /\ results[0].Error = ErrWork
    /\ branch[1] = "done"
    /\ pc[2] = "skipStop"
    /\ invoked[1] = 0
    /\ invoked[2] = 0

\* C32: len(sem) is always the number of goroutines that obtained a slot
\* and have not given it back, never exceeds cap(sem), and is zero when
\* the call has returned.
C32_GateCountsHolders ==
    /\ semLen = Cardinality(Holders)
    /\ semLen = Cardinality({t \in Items : acquires[t] = 1 /\ releases[t] = 0})
    /\ mainPC \notin {"entry", "panic"} => (0 <= semLen /\ semLen <= semCap)
    /\ Returned => (semLen = 0 /\ Holders = {})

\* C32 witness: both slots of a gate of two are taken, by a goroutine at
\* its work function and by one about to give its slot back, while a
\* third waits
C32_Witness ==
    /\ semCap = 2
    /\ semLen = 2
    /\ \E t, u, w \in Items :
          /\ pc[t] = "working"
          /\ pc[u] = "release"
          /\ pc[w] = "select"

RECURSIVE SumOver(_, _)
\* the sum of f over the finite set S
SumOver(S, f) ==
    IF S = {} THEN 0
    ELSE LET x == CHOOSE y \in S : TRUE
         IN  f[x] + SumOver(S \ {x}, f)

\* the credits the postprocess elements add
PostprocessSum(postprocess) ==
    SumOver(DOMAIN postprocess,
            [k \in DOMAIN postprocess |->
                IF postprocess[k].Process = ProcessUpscale
                THEN 2 * postprocess[k].UpscaleFactor
                ELSE IF postprocess[k].Process = ProcessRemoveBackground
                     THEN 2 ELSE 0])

\* the unscaled base of the Estimate function that was called
BaseOf(e) ==
    CASE e.called = "EstimateCreate" -> 18
      [] e.called \in {"EstimateEdit", "EstimateRemix"} /\ ~e.fast -> 30
      [] e.called \in {"EstimateEdit", "EstimateRemix"} /\ e.fast -> 5

\* C34: BaseCredits is the unscaled base whatever the scaling; for a
\* whole scaling k > 1 TotalCredits is base * k plus 2 * UpscaleFactor per
\* upscale and 2 per background removal; for a scaling <= 1 the base is
\* not multiplied.
C34_ScalingArithmetic ==
    est.called # "none" =>
        /\ est.cost.BaseCredits = BaseOf(est)
        /\ (est.scaling > ScalingUnit /\ est.scaling % ScalingUnit = 0) =>
              est.cost.TotalCredits =
                  BaseOf(est) * (est.scaling \div ScalingUnit) + PostprocessSum(est.postprocess)
        /\ est.scaling <= ScalingUnit =>
              est.cost.TotalCredits = BaseOf(est) + PostprocessSum(est.postprocess)

\* C34 witness: EstimateCreate(2, [upscale by 4, remove background])
\* returned a base of 18 and a total of 18 * 2 + 8 + 2
C34_Witness ==
    /\ est.called = "EstimateCreate"
    /\ est.scaling = 2 * ScalingUnit
    /\ est.postprocess = <<[Process |-> ProcessUpscale, UpscaleFactor |-> 4],
                           [Process |-> ProcessRemoveBackground, UpscaleFactor |-> 0]>>
    /\ est.cost = [BaseCredits |-> 18, TotalCredits |-> 46]

\* C33: BatchCreate, BatchEdit and BatchRemix are one coordination state
\* machine.  Given the same number of requests with the same work
\* results, the same config and the same cancellations, whenever the
\* three calls have taken the same steps each kind of step (of the loop,
\* of the goroutine of each item: dispatch, acquire, cancel, work call,
\* stop flag, release) can be taken by all three or by none, and the step
\* one call took brings each of the others to the same coordination
\* state and the same outcome statuses.
C33_SameStateMachine ==
    [][/\ InSync =>
             /\ (ENABLED Setup) = (ENABLED EditSetup)
             /\ (ENABLED Setup) = (ENABLED RemixSetup)
             /\ (ENABLED SetupPanic) = (ENABLED EditSetupPanic)
             /\ (ENABLED SetupPanic) = (ENABLED RemixSetupPanic)
             /\ (ENABLED MainCheckCtx) = (ENABLED EditMainCheckCtx)
             /\ (ENABLED MainCheckCtx) = (ENABLED RemixMainCheckCtx)
             /\ (ENABLED MainLock) = (ENABLED EditMainLock)
             /\ (ENABLED MainLock) = (ENABLED RemixMainLock)
             /\ (ENABLED MainCheckStop) = (ENABLED EditMainCheckStop)
             /\ (ENABLED MainCheckStop) = (ENABLED RemixMainCheckStop)
             /\ (ENABLED MainSpawn) = (ENABLED EditMainSpawn)
             /\ (ENABLED MainSpawn) = (ENABLED RemixMainSpawn)
             /\ (ENABLED MainWait) = (ENABLED EditMainWait)
             /\ (ENABLED MainWait) = (ENABLED RemixMainWait)
             /\ (ENABLED Cancel) = (ENABLED EditCancel)
             /\ (ENABLED Cancel) = (ENABLED RemixCancel)
             /\ \A t \in Items :
                   /\ (ENABLED TaskAcquire(t)) = (ENABLED EditTaskAcquire(t))
                   /\ (ENABLED TaskAcquire(t)) = (ENABLED RemixTaskAcquire(t))
                   /\ (ENABLED TaskCancelled(t)) = (ENABLED EditTaskCancelled(t))
                   /\ (ENABLED TaskCancelled(t)) = (ENABLED RemixTaskCancelled(t))
                   /\ (ENABLED TaskInvoke(t)) = (ENABLED EditTaskInvoke(t))
                   /\ (ENABLED TaskInvoke(t)) = (ENABLED RemixTaskInvoke(t))
                   /\ (ENABLED TaskReturn(t)) = (ENABLED EditTaskReturn(t))
                   /\ (ENABLED TaskReturn(t)) = (ENABLED RemixTaskReturn(t))
                   /\ (ENABLED TaskLock(t)) = (ENABLED EditTaskLock(t))
                   /\ (ENABLED TaskLock(t)) = (ENABLED RemixTaskLock(t))
                   /\ (ENABLED TaskSetStop(t)) = (ENABLED EditTaskSetStop(t))
                   /\ (ENABLED TaskSetStop(t)) = (ENABLED RemixTaskSetStop(t))
                   /\ (ENABLED TaskRelease(t)) = (ENABLED EditTaskRelease(t))
                   /\ (ENABLED TaskRelease(t)) = (ENABLED RemixTaskRelease(t))
                   /\ (ENABLED TaskDone(t)) = (ENABLED EditTaskDone(t))
                   /\ (ENABLED TaskDone(t)) = (ENABLED RemixTaskDone(t))
       /\ EditCoord # CreateCoord => EditCoord' = CreateCoord'
       /\ (EditCoord = CreateCoord /\ RemixCoord # CreateCoord)
             => RemixCoord' = CreateCoord']_vars

\* C33 witness: the three calls have returned in step from a run in
\* which the first request failed, the stop flag was set and the second
\* item was skipped for it
C33_Witness ==
    /\ InSync
    /\ Returned
    /\ edit.mainPC = "returned"
    /\ remix.mainPC = "returned"
    /\ N = 2
    /\ stopFlag /\ edit.stopFlag /\ remix.stopFlag
    /\ results[0].Error = ErrWork
    /\ edit.results[0].Error = ErrWork
    /\ remix.results[0].Error = ErrWork
    /\ pc[1] = "skipStop"
    /\ edit.pc[1] = "skipStop"
    /\ remix.pc[1] = "skipStop"

TypeOK ==
    /\ mainPC \in {"entry", "checkCtx", "lockStop", "checkStop", "spawn", "wait",
                   "returned", "panic"}
    /\ semLen \in 0..(DefaultConcurrency + MaxConcurrency)
    /\ wg \in 0..N
    /\ i \in 0..N
====
